---- MODULE Spec2Model ----
(***************************************************************************)
(* Verification model of the momentum simulation engine                    *)
(* (backend/momentum_sim/simulation/engine.py) and of the request          *)
(* validation in front of it (backend/middleware/validation.py,            *)
(* backend/app.py).                                                        *)
(*                                                                         *)
(* Numbers.  The program computes in binary floating point.  The model     *)
(* computes in decimal fixed point:                                        *)
(*   - PMU quantities (baseline_energy, event_impact, crowd_impact,        *)
(*     fatigue, pmu, impacts) are integers counting thousandths;           *)
(*   - the multiplicative factors of the lookup tables are integers        *)
(*     counting tenths, hundredths or thousandths as noted at each table;  *)
(*   - round(v, k) is RoundHalfEven on the exact decimal value;            *)
(*   - the averages of _aggregate are computed in binary64 (float_add,    *)
(*     float_round, mean_2dp), since their rounding depends on the order   *)
(*     of the additions;                                                   *)
(*   - sin and exp are tabulated from the source formulas.                 *)
(***************************************************************************)
EXTENDS Integers, Sequences, FiniteSets, TLC

VARIABLES
    ep,           \* EventProcessor.compute: one call, its arguments and result
    dk,           \* DecayModel.apply: a veteran and a rookie under the same calls
    ag,           \* MonteCarloEngine._aggregate: one call on a list of results
    rq,           \* one HTTP request through backend/app.py
    call,         \* one call of a single engine function: arguments and result
    config,       \* MonteCarloEngine.config
    squad_def,    \* DEFAULT_SQUAD, the squad template
    mc,           \* MonteCarloEngine.run(): loop position, results, aggregate
    players,      \* players_a + players_b of the current MatchSimulator
    match_state,  \* MatchState of the current MatchSimulator
    sim           \* MatchSimulator.run(): loop position inside _run_step

vars == <<ep, dk, ag, rq, call, config, squad_def, mc, players, match_state, sim>>

----------------------------------------------------------------------------
(* Arithmetic helpers *)

Abs(n) == IF n < 0 THEN -n ELSE n

Min(a, b) == IF a < b THEN a ELSE b

Max(a, b) == IF a > b THEN a ELSE b

\* np.clip(v, lo, hi)
Clip(v, lo, hi) == Max(lo, Min(hi, v))

\* round(): the quotient n/d rounded to the nearest integer, ties to even.
RoundHalfEven(n, d) ==
    LET q == n \div d
        r == n - q * d
    IN  IF 2 * r < d THEN q
        ELSE IF 2 * r > d THEN q + 1
        ELSE IF q % 2 = 0 THEN q ELSE q + 1

\* dict.get(key, default) on a function used as a dict
Get(dict, key, default) == IF key \in DOMAIN dict THEN dict[key] ELSE default

\* floor of the square root, by bisection on lo..hi
RECURSIVE ISqrtIn(_, _, _)
ISqrtIn(n, lo, hi) ==
    IF lo >= hi THEN lo
    ELSE LET mid == (lo + hi + 1) \div 2
         IN  IF mid * mid <= n THEN ISqrtIn(n, mid, hi) ELSE ISqrtIn(n, lo, mid - 1)

ISqrt(n) == ISqrtIn(n, 0, 46340)

RECURSIVE SumSeq(_)
SumSeq(s) == IF s = <<>> THEN 0 ELSE Head(s) + SumSeq(Tail(s))

----------------------------------------------------------------------------
(* Constants of engine.py *)

PITCH_LENGTH == 105

PMU_MAX == 100000          \* 100.0, the upper clip of recalc_pmu

FATIGUE_PENALTY_PCT == 30  \* fatigue * 0.30

\* BASE_ENERGY, tenths
BASE_ENERGY == ("GK" :> 80) @@ ("DEF" :> 120) @@ ("MID" :> 150) @@ ("FWD" :> 180)

\* the default of BASE_ENERGY.get(pos, 12.0), tenths
BASE_ENERGY_DEFAULT == 120

\* EVENT_BASE_IMPACTS, tenths
EVENT_BASE_IMPACTS ==
    [pass |-> 20, key_pass |-> 35, through_ball |-> 40, cross |-> 25,
     tackle |-> 50, tackle_won |-> 60, interception |-> 30, clearance |-> 20,
     shot |-> 40, shot_on_target |-> 55, goal |-> 150, goal_conceded |-> -100,
     save |-> 50, foul |-> -30, yellow_card |-> -40, red_card |-> -120,
     turnover |-> -25, dribble |-> 30, dribble_success |-> 45, press |-> 15]

\* POSITION_MODS, tenths
POSITION_MODS ==
    ("GK"  :> [save |-> 15, tackle |-> 9, pass |-> 8]) @@
    ("DEF" :> [tackle |-> 13, tackle_won |-> 14, clearance |-> 14,
               interception |-> 13, goal |-> 18]) @@
    ("MID" :> [pass |-> 12, key_pass |-> 13, through_ball |-> 14, goal |-> 15]) @@
    ("FWD" :> [shot |-> 13, shot_on_target |-> 14, goal |-> 12,
               dribble_success |-> 13])

\* GAME_STATE_MODS, tenths
GAME_STATE_MODS == [leading |-> 9, tied |-> 10, losing |-> 12]

\* ZONE_MODS, tenths
ZONE_MODS == [defensive_third |-> 8, middle_third |-> 10, attacking_third |-> 15]

\* RESILIENCE_MAP, hundredths
RESILIENCE_MAP == [veteran |-> 90, experienced |-> 75, young |-> 60, rookie |-> 45]

\* the default of RESILIENCE_MAP.get(tier, 0.70), hundredths
RESILIENCE_DEFAULT == 70

\* TACTIC_MODS, hundredths
TACTIC_MODS ==
    [aggressive |-> [pmu |-> 120, off_ball |-> 85,  possession |-> 95,  press |-> 135],
     balanced   |-> [pmu |-> 100, off_ball |-> 100, possession |-> 100, press |-> 100],
     defensive  |-> [pmu |-> 75,  off_ball |-> 125, possession |-> 80,  press |-> 70],
     possession |-> [pmu |-> 115, off_ball |-> 80,  possession |-> 120, press |-> 90]]

\* DECAY_RATES, thousandths per unit of dt
DECAY_RATES ==
    [goal |-> 200, goal_conceded |-> 250, tackle |-> 150, shot |-> 120,
     pass |-> 50, foul |-> 80, default |-> 80]

\* FORMATION_COHERENCE, hundredths; a formation is the sequence of its lines
FORMATION_COHERENCE ==
    (<<4, 3, 3>> :> 87) @@ (<<3, 5, 2>> :> 82) @@ (<<5, 3, 2>> :> 85) @@
    (<<4, 2, 4>> :> 78) @@ (<<4, 4, 2>> :> 84) @@ (<<3, 4, 3>> :> 80) @@
    (<<4, 2, 3, 1>> :> 86) @@ (<<4, 1, 4, 1>> :> 83) @@ (<<4, 3, 2, 1>> :> 82)

\* GOAL_CONCEDED_LAMBDA = 0.03: round(10^4 * (1 - exp(-0.03 * dt))) for
\* dt = 0..10 (entry dt + 1), ten-thousandths
GOAL_CONCEDED_DECAY_TABLE ==
    <<0, 296, 582, 861, 1131, 1393, 1647, 1894, 2134, 2366, 2592>>

\* DEFAULT_SQUAD; skill and speed in tenths
DEFAULT_SQUAD ==
    <<
      [id |-> "A1", team |-> "A", pos |-> "FWD", tier |-> "veteran", skill |-> 92, speed |-> 91],
      [id |-> "A2", team |-> "A", pos |-> "MID", tier |-> "veteran", skill |-> 90, speed |-> 84],
      [id |-> "A3", team |-> "A", pos |-> "DEF", tier |-> "veteran", skill |-> 88, speed |-> 76],
      [id |-> "A4", team |-> "A", pos |-> "DEF", tier |-> "experienced", skill |-> 85, speed |-> 87],
      [id |-> "A5", team |-> "A", pos |-> "FWD", tier |-> "veteran", skill |-> 89, speed |-> 78],
      [id |-> "A6", team |-> "A", pos |-> "FWD", tier |-> "young", skill |-> 84, speed |-> 88],
      [id |-> "A7", team |-> "A", pos |-> "DEF", tier |-> "experienced", skill |-> 82, speed |-> 85],
      [id |-> "A8", team |-> "A", pos |-> "MID", tier |-> "experienced", skill |-> 83, speed |-> 81],
      [id |-> "A9", team |-> "A", pos |-> "MID", tier |-> "experienced", skill |-> 87, speed |-> 86],
      [id |-> "A10", team |-> "A", pos |-> "DEF", tier |-> "veteran", skill |-> 79, speed |-> 72],
      [id |-> "A11", team |-> "A", pos |-> "GK", tier |-> "experienced", skill |-> 80, speed |-> 65],
      [id |-> "B1", team |-> "B", pos |-> "FWD", tier |-> "young", skill |-> 93, speed |-> 95],
      [id |-> "B2", team |-> "B", pos |-> "MID", tier |-> "veteran", skill |-> 86, speed |-> 82],
      [id |-> "B3", team |-> "B", pos |-> "DEF", tier |-> "veteran", skill |-> 87, speed |-> 79],
      [id |-> "B4", team |-> "B", pos |-> "DEF", tier |-> "veteran", skill |-> 85, speed |-> 78],
      [id |-> "B5", team |-> "B", pos |-> "MID", tier |-> "experienced", skill |-> 89, speed |-> 87],
      [id |-> "B6", team |-> "B", pos |-> "FWD", tier |-> "experienced", skill |-> 86, speed |-> 92],
      [id |-> "B7", team |-> "B", pos |-> "MID", tier |-> "experienced", skill |-> 85, speed |-> 83],
      [id |-> "B8", team |-> "B", pos |-> "DEF", tier |-> "experienced", skill |-> 81, speed |-> 90],
      [id |-> "B9", team |-> "B", pos |-> "FWD", tier |-> "experienced", skill |-> 82, speed |-> 84],
      [id |-> "B10", team |-> "B", pos |-> "MID", tier |-> "young", skill |-> 83, speed |-> 86],
      [id |-> "B11", team |-> "B", pos |-> "GK", tier |-> "veteran", skill |-> 84, speed |-> 68]
    >>

----------------------------------------------------------------------------
(* PlayerState *)

\* a resilience that ignores the tier
resilience_flat(p) == RESILIENCE_DEFAULT

\* PlayerState.resilience, hundredths
resilience(p) == Get(RESILIENCE_MAP, p.resilience_tier, RESILIENCE_DEFAULT)

\* PlayerState.recalc_pmu
recalc_pmu(p) ==
    LET fatigue_penalty == RoundHalfEven(p.fatigue * FATIGUE_PENALTY_PCT, 100)
        raw == p.baseline_energy + p.event_impact + p.crowd_impact - fatigue_penalty
    IN  [p EXCEPT !.pmu = Clip(raw, 0, PMU_MAX)]

\* PlayerState.snapshot
snapshot(p) ==
    [p EXCEPT !.pmu_history = Append(@, RoundHalfEven(p.pmu, 10) * 10)]

\* build_player: base = BASE_ENERGY[pos] * (1 + ((skill + 0.9*skill) / 20) * 0.3),
\* rounded to 2 decimals; x and y are the two random.uniform draws
build_player(row, x, y) ==
    LET be   == Get(BASE_ENERGY, row.pos, BASE_ENERGY_DEFAULT)
        base == RoundHalfEven(be * (100000 + 285 * row.skill), 10000) * 10
    IN  [id |-> row.id, position |-> row.pos, team |-> row.team,
         resilience_tier |-> row.tier, skill |-> row.skill, speed |-> row.speed,
         baseline_energy |-> base, event_impact |-> 0, crowd_impact |-> 0,
         fatigue |-> 0, pmu |-> base, x |-> x, y |-> y,
         pmu_history |-> <<>>, event_log |-> <<>>]

----------------------------------------------------------------------------
(* EventProcessor *)

\* EventProcessor.zone_from_x; PITCH_LENGTH / 3 = 35, 2 * PITCH_LENGTH / 3 = 70
zone_from_x(x, team) ==
    IF team = "A"
    THEN IF x < PITCH_LENGTH \div 3 THEN "defensive_third"
         ELSE IF x < (2 * PITCH_LENGTH) \div 3 THEN "middle_third"
         ELSE "attacking_third"
    ELSE IF x > (2 * PITCH_LENGTH) \div 3 THEN "defensive_third"
         ELSE IF x > PITCH_LENGTH \div 3 THEN "middle_third"
         ELSE "attacking_third"

\* round(max(0.55, min(1.35, 0.65 + 0.65*sin(pi*minute/90 - pi/2))), 3) for
\* minute = 0..90, thousandths (entry minute + 1)
MINUTE_MODIFIER_TABLE ==
    <<550, 550, 550, 550, 550, 550, 550, 550, 550, 550, 550, 550, 550, 550,
      550, 550, 550, 550, 550, 550, 550, 550, 550, 550, 550, 550, 550, 550,
      550, 550, 550, 550, 550, 550, 550, 550, 550, 550, 550, 550, 550, 560,
      582, 605, 627, 650, 673, 695, 718, 740, 763, 785, 807, 829, 851, 872,
      893, 914, 935, 955, 975, 994, 1013, 1032, 1050, 1068, 1085, 1102, 1118,
      1133, 1148, 1162, 1176, 1189, 1201, 1213, 1224, 1234, 1244, 1253, 1261,
      1268, 1275, 1281, 1286, 1290, 1294, 1296, 1298, 1300, 1300>>

\* EventProcessor.minute_modifier, thousandths
minute_modifier(minute) == MINUTE_MODIFIER_TABLE[minute + 1]

\* the product base * pos_factor * state_factor * zone_factor * min_factor of
\* EventProcessor.compute for a successful event, in units of 10^-7
RawImpact(event_type, position, team, x, game_state, minute) ==
    LET base         == Get(EVENT_BASE_IMPACTS, event_type, 0)
        pos_mods     == Get(POSITION_MODS, position, <<>>)
        pos_factor   == Get(pos_mods, event_type, Get(pos_mods, "default", 10))
        state_factor == Get(GAME_STATE_MODS, game_state, 10)
        zone_factor  == Get(ZONE_MODS, zone_from_x(x, team), 10)
        min_factor   == minute_modifier(minute)
    IN  base * pos_factor * state_factor * zone_factor * min_factor

\* a failed event carrying the full impact
scale_impact_undiscounted(raw, success) == RoundHalfEven(raw, 10000)

\* "if not success: base *= 0.30", and round(.., 3): thousandths
scale_impact(raw, success) ==
    IF success THEN RoundHalfEven(raw, 10000) ELSE RoundHalfEven(raw * 3, 100000)

\* EventProcessor.compute without the clip
EventProcessor_compute_unclipped(event_type, position, team, x, game_state, minute, success) ==
    scale_impact(RawImpact(event_type, position, team, x, game_state, minute), success)

\* EventProcessor.compute: failed event = 30 % impact, clip to [-25, 25],
\* 3 decimals
EventProcessor_compute(event_type, position, team, x, game_state, minute, success) ==
    LET raw == RawImpact(event_type, position, team, x, game_state, minute)
    IN  Clip(scale_impact(raw, success), -25000, 25000)

----------------------------------------------------------------------------
(* FatigueModel *)

\* FatigueModel.update that also moves the player one metre up the pitch
FatigueModel_update_moving(p, speed, distance, acceleration, sprint_events, is_stoppage) ==
    LET activity == speed * 2
                    + distance * 1000
                    + Abs(acceleration) * 100000
                    + sprint_events * 5000000
        delta    == RoundHalfEven(activity * 115, 1000000)
        recovery == IF is_stoppage THEN 20 ELSE 10
    IN  recalc_pmu([p EXCEPT !.fatigue = Clip(p.fatigue + delta - recovery, 0, 100000),
                             !.x = Min(PITCH_LENGTH, p.x + 1)])

\* FatigueModel.update.  speed in ten-thousandths of a m/s, distance in
\* metres; the activity sum is in units of 10^-7, factor = 2.0 - 0.85 = 1.15
FatigueModel_update(p, speed, distance, acceleration, sprint_events, is_stoppage) ==
    LET activity == speed * 2
                    + distance * 1000
                    + Abs(acceleration) * 100000
                    + sprint_events * 5000000
        delta    == RoundHalfEven(activity * 115, 1000000)
        recovery == IF is_stoppage THEN 20 ELSE 10
    IN  recalc_pmu([p EXCEPT !.fatigue = Clip(p.fatigue + delta - recovery, 0, 100000)])

----------------------------------------------------------------------------
(* DecayModel *)

\* the amount subtracted by DecayModel.apply, thousandths
decay_amount(event_impact, event_type, dt) ==
    LET rate == Get(DECAY_RATES, event_type, DECAY_RATES["default"])
    IN  IF event_type = "goal_conceded"
        THEN RoundHalfEven(Abs(event_impact) * GOAL_CONCEDED_DECAY_TABLE[dt + 1], 10000)
        ELSE rate * dt

\* DecayModel.apply without the floor at zero
decayed_impact_unfloored(event_impact, res, event_type, dt) ==
    RoundHalfEven(event_impact * res, 100) - decay_amount(event_impact, event_type, dt)

\* the new event_impact of DecayModel.apply:
\* max(0.0, event_impact * resilience - decay_amount)
decayed_impact(event_impact, res, event_type, dt) ==
    Max(0, RoundHalfEven(event_impact * res, 100)
           - decay_amount(event_impact, event_type, dt))

\* DecayModel.apply
DecayModel_apply(p, event_type, dt) ==
    recalc_pmu([p EXCEPT !.event_impact =
                    decayed_impact(p.event_impact, resilience(p), event_type, dt)])

----------------------------------------------------------------------------
(* CrowdEngine *)

\* exp_mods of CrowdEngine.compute, hundredths
CROWD_EXP_MODS == (1 :> 120) @@ (5 :> 100) @@ (10 :> 70) @@ (15 :> 50)

\* tier_exp of CrowdEngine.compute, years
CROWD_TIER_EXP == [veteran |-> 12, experienced |-> 7, young |-> 3, rookie |-> 1]

\* the experience modifier: linear interpolation between the breakpoints
crowd_exp_mod(tier) ==
    LET exp_years == Get(CROWD_TIER_EXP, tier, 5)
        keys      == DOMAIN CROWD_EXP_MODS
        above     == {k \in keys : exp_years <= k}
    IN  IF above = {} THEN CROWD_EXP_MODS[15]
        ELSE LET hi == CHOOSE k \in above : \A j \in above : k <= j
                 below == {k \in keys : k < hi}
             IN  IF below = {} THEN CROWD_EXP_MODS[hi]
                 ELSE LET lo == CHOOSE k \in below : \A j \in below : j <= k
                      IN  RoundHalfEven(CROWD_EXP_MODS[lo] * (hi - exp_years)
                                        + CROWD_EXP_MODS[hi] * (exp_years - lo),
                                        hi - lo)

\* the stress factor, thousandths; heart_rate and hrv in thousandths
crowd_stress(heart_rate, hrv) ==
    LET hr_stress  == IF heart_rate < 80000 THEN 300
                      ELSE IF heart_rate < 100000 THEN 700
                      ELSE IF heart_rate < 120000 THEN 1000
                      ELSE 1300 + RoundHalfEven(heart_rate - 120000, 50)
        hrv_stress == 1000 - Min(500, RoundHalfEven(hrv, 200))
    IN  RoundHalfEven(hr_stress * 6 + hrv_stress * 4, 10)

\* CrowdEngine.compute with the home alpha for away players as well
CrowdEngine_compute_home_alpha(p, noise_db, is_home, heart_rate, hrv) ==
    LET noise_norm == noise_db - 750
        exp_mod    == crowd_exp_mod(p.resilience_tier)
        stress     == crowd_stress(heart_rate, hrv)
        impact     == RoundHalfEven(8 * noise_norm * exp_mod * stress, 2000000)
    IN  Clip(impact, -8000, 8000)

\* CrowdEngine.compute; noise_db in tenths of a dB, result in thousandths
CrowdEngine_compute(p, noise_db, is_home, heart_rate, hrv) ==
    LET alpha      == IF is_home THEN 8 ELSE -12
        noise_norm == noise_db - 750
        exp_mod    == crowd_exp_mod(p.resilience_tier)
        stress     == crowd_stress(heart_rate, hrv)
        impact     == RoundHalfEven(alpha * noise_norm * exp_mod * stress, 2000000)
    IN  Clip(impact, -8000, 8000)

\* CrowdEngine.apply
CrowdEngine_apply(p, crowd_val) == recalc_pmu([p EXCEPT !.crowd_impact = crowd_val])

----------------------------------------------------------------------------
(* PressureEngine *)

\* math.hypot on integer offsets, metres rounded down
hypot(dx, dy) == ISqrt(dx * dx + dy * dy)

\* round(10^4 * exp(-max(0.1, d) / PRESSURE_DECAY_RADIUS)) for d = 0..90
\* (entry d + 1), PRESSURE_DECAY_RADIUS = 6.0
DISTANCE_DECAY_TABLE ==
    <<9835, 8465, 7165, 6065, 5134, 4346, 3679, 3114, 2636, 2231, 1889,
      1599, 1353, 1146, 970, 821, 695, 588, 498, 421, 357, 302, 256, 216,
      183, 155, 131, 111, 94, 80, 67, 57, 48, 41, 35, 29, 25, 21, 18, 15,
      13, 11, 9, 8, 7, 6, 5, 4, 3, 3, 2, 2, 2, 1, 1, 1, 1, 1, 1, 1, 0, 0, 0,
      0, 0, 0, 0, 0, 0, 0, 0, 0, 0, 0, 0, 0, 0, 0, 0, 0, 0, 0, 0, 0, 0, 0,
      0, 0, 0, 0, 0>>

\* PressureEngine.distance_decay, ten-thousandths
distance_decay(dist) == DISTANCE_DECAY_TABLE[dist + 1]

\* PressureEngine.cone_factor with PRESSURE_CONE_DEG = 120 (cos 60 = 0.5),
\* ten-thousandths
cone_factor(px, py, fx, fy, tx, ty) ==
    LET dx == tx - px
        dy == ty - py
        d2 == dx * dx + dy * dy
        f2 == fx * fx + fy * fy
    IN  IF d2 = 0 THEN 0
        ELSE IF f2 = 0 THEN 5000
        ELSE LET cos_a == ((dx * fx + dy * fy) * 10000) \div ISqrt(d2 * f2)
             IN  IF cos_a < 5000 THEN 0
                 ELSE Max(0, ((cos_a - 5000) * 10000) \div 5000)

\* PressureEngine.compute_impact; formation_coherence in ten-thousandths
compute_impact(pressurer, target, formation_coherence) ==
    LET dist     == hypot(pressurer.x - target.x, pressurer.y - target.y)
        d_factor == distance_decay(dist)
        c_factor == cone_factor(pressurer.x, pressurer.y,
                                target.x - pressurer.x, target.y - pressurer.y,
                                target.x, target.y)
        a        == RoundHalfEven(pressurer.pmu * formation_coherence, 10000)
        b        == RoundHalfEven(a * d_factor, 10000)
        impact   == RoundHalfEven(b * c_factor, 10000)
    IN  Clip(impact, 0, 50000)

----------------------------------------------------------------------------
(* FormationEngine *)

\* A formation string is modelled as the sequence of its hyphen-separated
\* groups: a natural number for a group of digits, -1 for any other group
\* (empty, letters, signs); the empty string is the empty sequence.

\* compute_formation_coherence without max(0.70, min(0.92, score))
compute_formation_coherence_unclamped(formation) ==
    IF formation \in DOMAIN FORMATION_COHERENCE
    THEN FORMATION_COHERENCE[formation]
    ELSE IF formation = <<>> \/ \E i \in DOMAIN formation : formation[i] < 0
    THEN 82
    ELSE LET n     == Len(formation)
             sum   == SumSeq(formation)
             sumsq == SumSeq([i \in 1..n |-> formation[i] * formation[i]])
             score == 880 * n * n - 15 * Abs(n - 3) * n * n
                      - 18 * (n * sumsq - sum * sum)
         IN  RoundHalfEven(score, 10 * n * n)

\* compute_formation_coherence, hundredths
compute_formation_coherence(formation) ==
    IF formation \in DOMAIN FORMATION_COHERENCE
    THEN FORMATION_COHERENCE[formation]
    ELSE IF formation = <<>> \/ \E i \in DOMAIN formation : formation[i] < 0
    THEN 82
    ELSE LET n     == Len(formation)
             sum   == SumSeq(formation)
             sumsq == SumSeq([i \in 1..n |-> formation[i] * formation[i]])
             \* n^2 * (0.88 - 0.015*|n - 3| - 0.018*variance), thousandths
             score == 880 * n * n - 15 * Abs(n - 3) * n * n
                      - 18 * (n * sumsq - sum * sum)
         IN  RoundHalfEven(Clip(score, 700 * n * n, 920 * n * n), 10 * n * n)

\* statistics.stdev of the values f[i], i \in 1..Len(f), hundredths
stdev(f) ==
    LET n     == Len(f)
        sum   == SumSeq(f)
        sumsq == SumSeq([i \in 1..n |-> f[i] * f[i]])
    IN  ISqrt(((n * sumsq - sum * sum) * 10000) \div (n * (n - 1)))

\* FormationEngine.coherence, ten-thousandths; ps is a sequence of players
coherence(ps, formation) ==
    LET lookup    == compute_formation_coherence(formation)
        defenders == SelectSeq(ps, LAMBDA p : p.position \in {"DEF", "GK"})
    IN  IF Len(defenders) < 2 THEN lookup * 100
        ELSE LET std_x    == stdev([i \in 1..Len(defenders) |-> defenders[i].x])
                 std_y    == stdev([i \in 1..Len(defenders) |-> defenders[i].y])
                 \* max(0, 1 - ((std_x + std_y) / 2) / 25)
                 live_coh == Max(0, 10000 - (std_x + std_y) * 2)
                 blended  == RoundHalfEven(7 * lookup * 100 + 3 * live_coh, 10)
             IN  Clip(blended, 0, 10000)

----------------------------------------------------------------------------
(* AgentDecision *)

\* AgentDecision.BASE_SUCCESS_RATES, hundredths
BASE_SUCCESS_RATES ==
    [pass |-> 82, key_pass |-> 60, shot |-> 35, tackle |-> 55, dribble |-> 50,
     press |-> 70, clearance |-> 85]

\* The actions AgentDecision.decide_action can return: each random.random()
\* comparison may come out either way.  ball_x in tenths of a metre.
decide_action(p, game_state, has_possession, ball_x) ==
    LET dist_to_goal == Abs(ball_x - PITCH_LENGTH * 10)
    IN  IF has_possession
        THEN IF p.position = "FWD"
             THEN (IF dist_to_goal < 180 THEN {"shot"} ELSE {})
                  \cup (IF dist_to_goal < 300 THEN {"dribble"} ELSE {})
                  \cup {"pass"}
             ELSE IF p.position = "MID"
             THEN (IF dist_to_goal < 250 THEN {"shot"} ELSE {})
                  \cup {IF dist_to_goal < 400 THEN "key_pass" ELSE "pass"}
                  \cup {"pass"}
             ELSE IF p.position = "DEF"
             THEN {"pass", "clearance"}
             ELSE {"pass"}
        ELSE (IF game_state = "losing" /\ p.pmu > 30000 THEN {"press"} ELSE {})
             \cup (IF p.position = "DEF" THEN {"tackle", "clearance"}
                   ELSE IF p.position = "MID" THEN {"tackle", "press"}
                   ELSE {"press"})

\* the success probability of AgentDecision.attempt_action, ten-thousandths:
\* base * (0.7 + skill/10 * 0.3) - fatigue/500, clamped to [0.05, 0.97]
success_prob(action, p) ==
    LET base         == Get(BASE_SUCCESS_RATES, action, 60)
        skill_factor == 7000 + p.skill * 30
        prob         == RoundHalfEven(base * skill_factor, 100)
                        - RoundHalfEven(p.fatigue, 50)
    IN  Max(500, Min(9700, prob))

\* attempt_action with a failed shot mapped like a successful one
attempt_action_fail_on_target(action, p) ==
    LET prob    == success_prob(action, p)
        on_succ == IF action = "shot" THEN {"shot_on_target", "shot"}
                   ELSE IF action = "tackle" THEN {"tackle_won", "tackle"}
                   ELSE IF action = "dribble" THEN {"dribble_success"}
                   ELSE {action}
        on_fail == IF action \in {"pass", "key_pass", "dribble"} THEN {"turnover"}
                   ELSE IF action = "tackle" THEN {"foul", "tackle"}
                   ELSE IF action = "shot" THEN {"shot_on_target", "shot"}
                   ELSE {action}
        upgrade(evts) == evts \cup (IF "shot_on_target" \in evts THEN {"goal"} ELSE {})
    IN  (IF prob > 0 THEN {<<TRUE, e>> : e \in upgrade(on_succ)} ELSE {})
        \cup (IF prob < 10000 THEN {<<FALSE, e>> : e \in upgrade(on_fail)} ELSE {})

\* The (success, resolved event) pairs AgentDecision.attempt_action can return.
attempt_action(action, p) ==
    LET prob    == success_prob(action, p)
        on_succ == IF action = "shot" THEN {"shot_on_target", "shot"}
                   ELSE IF action = "tackle" THEN {"tackle_won", "tackle"}
                   ELSE IF action = "dribble" THEN {"dribble_success"}
                   ELSE {action}
        on_fail == IF action \in {"pass", "key_pass", "dribble"} THEN {"turnover"}
                   ELSE IF action = "tackle" THEN {"foul", "tackle"}
                   ELSE {action}
        \* if resolved == "shot_on_target" and random.random() < 0.25: "goal"
        upgrade(evts) == evts \cup (IF "shot_on_target" \in evts THEN {"goal"} ELSE {})
    IN  (IF prob > 0 THEN {<<TRUE, e>> : e \in upgrade(on_succ)} ELSE {})
        \cup (IF prob < 10000 THEN {<<FALSE, e>> : e \in upgrade(on_fail)} ELSE {})

----------------------------------------------------------------------------
(* MatchState *)

\* MatchState.update_game_states
update_game_states(ms) ==
    IF ms.score_a > ms.score_b
    THEN [ms EXCEPT !.game_state_a = "leading", !.game_state_b = "losing"]
    ELSE IF ms.score_b > ms.score_a
    THEN [ms EXCEPT !.game_state_a = "losing", !.game_state_b = "leading"]
    ELSE [ms EXCEPT !.game_state_a = "tied", !.game_state_b = "tied"]

\* MatchState.switch_possession
switch_possession(ms) ==
    [ms EXCEPT !.possession_team = IF ms.possession_team = "A" THEN "B" ELSE "A"]

\* goal_scored without the call of update_game_states()
goal_scored_stale(ms, team) ==
    LET scored == IF team = "A" THEN [ms EXCEPT !.score_a = @ + 1]
                  ELSE [ms EXCEPT !.score_b = @ + 1]
    IN  switch_possession(scored)

\* MatchState.goal_scored
goal_scored(ms, team) ==
    LET scored == IF team = "A" THEN [ms EXCEPT !.score_a = @ + 1]
                  ELSE [ms EXCEPT !.score_b = @ + 1]
    IN  switch_possession(update_game_states(scored))

\* MatchState(minute=start_minute, crowd_noise_db=crowd_noise_db)
new_match_state(start_minute, crowd_noise_db) ==
    [minute |-> start_minute, game_state_a |-> "tied", game_state_b |-> "tied",
     score_a |-> 0, score_b |-> 0, possession_team |-> "A",
     ball_x |-> 525, ball_y |-> 340, crowd_noise_db |-> crowd_noise_db]

----------------------------------------------------------------------------
(* MatchSimulator._collate_results and MonteCarloEngine._aggregate *)

RECURSIVE MaxSeq(_)
MaxSeq(s) == IF Len(s) = 1 THEN s[1] ELSE Max(Head(s), MaxSeq(Tail(s)))

RECURSIVE MinSeq(_)
MinSeq(s) == IF Len(s) = 1 THEN s[1] ELSE Min(Head(s), MinSeq(Tail(s)))

\* team_stats of _collate_results; ps is a non-empty sequence of players
team_stats(ps) ==
    LET pmuls == [i \in 1..Len(ps) |-> ps[i].pmu]
        fats  == [i \in 1..Len(ps) |-> ps[i].fatigue]
    IN  [avg_pmu     |-> RoundHalfEven(SumSeq(pmuls), Len(ps) * 10) * 10,
         peak_pmu    |-> RoundHalfEven(MaxSeq(pmuls), 10) * 10,
         min_pmu     |-> RoundHalfEven(MinSeq(pmuls), 10) * 10,
         total_pmu   |-> RoundHalfEven(SumSeq(pmuls), 10) * 10,
         avg_fatigue |-> RoundHalfEven(SumSeq(fats), Len(ps) * 10) * 10]

\* The fields of the result of _collate_results that do not depend on the
\* random draws made in _collate_results itself.
collate_results(ps, ms, formation_a, formation_b) ==
    LET players_a == SelectSeq(ps, LAMBDA p : p.team = "A")
        players_b == SelectSeq(ps, LAMBDA p : p.team = "B")
    IN  [score      |-> [A |-> ms.score_a, B |-> ms.score_b],
         game_state |-> [team_a |-> ms.game_state_a, team_b |-> ms.game_state_b],
         team_a     |-> team_stats(players_a),
         team_b     |-> team_stats(players_b),
         formation_coherence |-> [A |-> coherence(players_a, formation_a),
                                  B |-> coherence(players_b, formation_b)]]

\* the number of indices of s that satisfy Test
Count(s, Test(_)) == Cardinality({i \in DOMAIN s : Test(s[i])})

\* The averages of _aggregate are sum(..) / N on binary64 values followed by
\* round(.., 2).  The additions and the division round to the nearest
\* binary64 value, ties to even, so the model carries the rounding error:
\* a binary64 value x of an aggregation over D results is the record
\* [H, e] with x = (H * 2^60 + e) * 2^-60 / (100 * D), H the nearby decimal
\* in units of 1/(100 * D) and e the accumulated error.  The range is
\* x = 0 or 2^-8 <= x < 2^10.

RECURSIVE PowMod(_, _, _)
\* b^e modulo m
PowMod(b, e, m) == IF e = 0 THEN 1 % m ELSE (PowMod(b, e - 1, m) * b) % m

\* f / n >= 2^(k - 8)
float_ge_pow2(f, n, D, k) ==
    LET l == IF k >= 8 THEN f.H ELSE f.H * 2^(8 - k)
        r == IF k >= 8 THEN n * 100 * D * 2^(k - 8) ELSE n * 100 * D
    IN  l > r \/ (l = r /\ f.e >= 0)

\* (H * 2^60 + e) modulo m * 2^k
float_zmod(f, m, k) ==
    (2^k * (((f.H % m) * PowMod(2, 60 - k, m)) % m) + f.e) % (m * 2^k)

\* the binary64 value nearest to f / n (ties to even); n divides f.H.
\* 2^k is the unit in the last place of f / n in units of 2^-60
float_round(f, n, D) ==
    IF f.H = 0 /\ f.e = 0 THEN f
    ELSE LET k  == CHOOSE j \in 0..17 :
                       /\ float_ge_pow2(f, n, D, j)
                       /\ (j = 17 \/ ~float_ge_pow2(f, n, D, j + 1))
             m  == n * 100 * D
             nM == m * 2^k
             R  == float_zmod(f, m, k)
             up == IF 2 * R < nM THEN FALSE
                   ELSE IF 2 * R > nM THEN TRUE
                   ELSE float_zmod(f, m, k + 1) >= nM
         IN  [H |-> f.H \div n,
              e |-> (f.e - R + (IF up THEN nM ELSE 0)) \div n]

\* the binary64 value of a decimal with two places, h in hundredths
float_from_hundredths(h, D) == float_round([H |-> h * D, e |-> 0], 1, D)

\* f + g on binary64
float_add(f, g, D) == float_round([H |-> f.H + g.H, e |-> f.e + g.e], 1, D)

RECURSIVE float_sum(_, _, _)
\* sum(hs[1..i]): the additions from left to right
float_sum(hs, i, D) ==
    IF i = 1 THEN float_from_hundredths(hs[1], D)
    ELSE float_add(float_sum(hs, i - 1, D), float_from_hundredths(hs[i], D), D)

\* round(f, 2), hundredths: the decimal nearest to the exact value of f
float_round2(f, D) ==
    LET m0  == f.H \div D
        rem == f.H % D
    IN  IF 2 * rem < D THEN m0
        ELSE IF 2 * rem > D THEN m0 + 1
        ELSE IF f.e < 0 THEN m0
        ELSE IF f.e > 0 THEN m0 + 1
        ELSE IF m0 % 2 = 0 THEN m0 ELSE m0 + 1

\* round(sum(hs) / N, 2) for a non-empty sequence of decimals with two
\* places; hs and the result in hundredths
mean_2dp(hs) ==
    LET N == Len(hs)
    IN  float_round2(float_round(float_sum(hs, N, N), N, N), N)

\* _aggregate with draws counted as every result that team A did not win
aggregate_draws_miscounted(results) ==
    LET N      == Len(results)
        wins_a == Count(results, LAMBDA r : r.score.A > r.score.B)
        wins_b == Count(results, LAMBDA r : r.score.B > r.score.A)
        draws  == N - wins_a
    IN  [iterations |-> N, avgPMU_A |-> 0, avgPMU_B |-> 0, peakPMU |-> 0,
         wins_a |-> wins_a, wins_b |-> wins_b, draws |-> draws,
         outcomeDistribution |->
             [teamA_wins |-> RoundHalfEven(wins_a * 10000, N),
              teamB_wins |-> RoundHalfEven(wins_b * 10000, N),
              draws      |-> RoundHalfEven(draws * 10000, N)]]

\* MonteCarloEngine._aggregate on a non-empty list of results: the scalar
\* averages, the peak and the outcome distribution.
aggregate(results) ==
    LET N      == Len(results)
        wins_a == Count(results, LAMBDA r : r.score.A > r.score.B)
        wins_b == Count(results, LAMBDA r : r.score.B > r.score.A)
        draws  == N - wins_a - wins_b
        avg_a  == [i \in 1..N |-> results[i].team_a.avg_pmu]
        avg_b  == [i \in 1..N |-> results[i].team_b.avg_pmu]
        peaks  == [i \in 1..N |-> results[i].team_a.peak_pmu]
    IN  [iterations |-> N,
         avgPMU_A   |-> mean_2dp([i \in 1..N |-> avg_a[i] \div 10]) * 10,
         avgPMU_B   |-> mean_2dp([i \in 1..N |-> avg_b[i] \div 10]) * 10,
         peakPMU    |-> RoundHalfEven(MaxSeq(peaks), 10) * 10,
         wins_a     |-> wins_a,
         wins_b     |-> wins_b,
         draws      |-> draws,
         \* round(count / N, 4), ten-thousandths
         outcomeDistribution |->
             [teamA_wins |-> RoundHalfEven(wins_a * 10000, N),
              teamB_wins |-> RoundHalfEven(wins_b * 10000, N),
              draws      |-> RoundHalfEven(draws * 10000, N)]]

----------------------------------------------------------------------------
(* Bounds and input sets of the model *)

\* largest "iterations" value of a config whose runs are executed
MaxIterations == 2

\* largest number of minutes in a simulated window
MaxSteps == 2

\* first minute of the simulated windows
StartMinutes == {44}

\* the rows of DEFAULT_SQUAD the simulated squads are built from
SquadIds == {"A2", "B2"}

\* values drawn for random.uniform(20, 85) and random.uniform(5, 63) in
\* build_player, metres: one sequence of (x, y) draws per built squad
RandPlacements ==
    {<<<<75, 34>>, <<75, 34>>>>,
     <<<<72, 34>>, <<75, 34>>>>}

\* values drawn for the ball position in _run_step, tenths of a metre
RandBallX == {200, 850}

RandBallY == {340}

\* values drawn for random.uniform(0.3, 0.9), thousandths, and for
\* random.uniform(50, 200) in _run_step
RandSpeedFactor == {600}

RandDistance == {125}

\* outcomes drawn for the stoppage test random.random() < 0.10 in _run_step
RandStoppage == {FALSE}

\* (tactic, tactic_b) pairs of the configs
TacticPairs == {<<"Aggressive", "defensive">>}

\* crowd_noise values of the configs, tenths of a dB
CrowdNoises == {800}

\* str.lower() on the tactic names used here
LOWER ==
    ("Aggressive" :> "aggressive") @@ ("Balanced" :> "balanced") @@
    ("Defensive" :> "defensive") @@ ("Possession" :> "possession")

lower(s) == Get(LOWER, s, s)

----------------------------------------------------------------------------
(* MatchSimulator and MonteCarloEngine: the state machine *)

NoSim == [pc |-> "none"]

NoMatchState == [minute |-> -1]

NoAggregate == [iterations |-> -1]

\* the engine configs: a full window with one iteration, or a one-minute
\* window with 0..MaxIterations iterations or without the "iterations" key
BaseConfigs ==
    {[formation |-> <<4, 3, 3>>, formation_b |-> <<4, 4, 2>>,
      tactic |-> t[1], tactic_b |-> t[2],
      start_minute |-> s, end_minute |-> s + n - 1, crowd_noise |-> c] :
        t \in TacticPairs, s \in StartMinutes, n \in 0..MaxSteps, c \in CrowdNoises}

ConfigInputs ==
    {cfg @@ ("iterations" :> 1) : cfg \in BaseConfigs}
    \cup {cfg @@ ("iterations" :> n) :
            cfg \in {c \in BaseConfigs : c.end_minute = c.start_minute},
            n \in 0..MaxIterations}
    \cup {c \in BaseConfigs : c.end_minute = c.start_minute}

\* _build_squads appending to player lists shared between simulators
build_squads_shared(squad, xy) ==
    LET built == [i \in 1..Len(squad) |-> build_player(squad[i], xy[i][1], xy[i][2])]
    IN  IF players # <<>> THEN players
        ELSE SelectSeq(built, LAMBDA p : p.team = "A")
             \o SelectSeq(built, LAMBDA p : p.team = "B")

\* MatchSimulator._build_squads followed by _all_players(): players_a + players_b
build_squads(squad, xy) ==
    LET built == [i \in 1..Len(squad) |-> build_player(squad[i], xy[i][1], xy[i][2])]
    IN  SelectSeq(built, LAMBDA p : p.team = "A")
        \o SelectSeq(built, LAMBDA p : p.team = "B")

\* TACTIC_MODS.get(tactic, TACTIC_MODS["balanced"])
tactic_mods(tactic) == Get(TACTIC_MODS, tactic, TACTIC_MODS["balanced"])

\* _run_step, "Apply impact" and "Log event" for the acting player
apply_event(p, minute, action, evt, success, gs, tmod) ==
    LET impact == RoundHalfEven(
                      EventProcessor_compute(evt, p.position, p.team, p.x, gs,
                                             minute, success) * tmod.pmu, 100)
        p1     == recalc_pmu([p EXCEPT !.event_impact = @ + impact])
    IN  [p1 EXCEPT !.event_log =
            Append(@, [minute |-> minute, action |-> action, event |-> evt,
                       impact |-> RoundHalfEven(impact, 10) * 10,
                       success |-> success])]

\* the goal_conceded penalty without the event_log entry
apply_goal_conceded_unlogged(opp, minute, tmod_b) ==
    LET concede_impact == EVENT_BASE_IMPACTS["goal_conceded"]
        conc_mod       == minute_modifier(minute)
    IN  recalc_pmu([opp EXCEPT !.event_impact =
            @ + RoundHalfEven(concede_impact * conc_mod * tmod_b.pmu, 1000)])

\* _run_step, "Goal handling": the goal_conceded penalty of one opponent
apply_goal_conceded(opp, minute, tmod_b) ==
    LET concede_impact == EVENT_BASE_IMPACTS["goal_conceded"]
        conc_mod       == minute_modifier(minute)
        o1 == recalc_pmu([opp EXCEPT !.event_impact =
                  @ + RoundHalfEven(concede_impact * conc_mod * tmod_b.pmu, 1000)])
    IN  [o1 EXCEPT !.event_log =
            Append(@, [minute |-> minute, event |-> "goal_conceded",
                       impact |-> RoundHalfEven(concede_impact * conc_mod, 100) * 10,
                       success |-> FALSE])]

\* the pressure subtraction without the recalc_pmu() that follows it
apply_pressure_stale(p, ps, coh) ==
    LET opps == SelectSeq(ps, LAMBDA o : o.team # p.team)
        total_pressure ==
            SumSeq([i \in 1..Len(opps) |-> compute_impact(opps[i], p, coh)])
    IN  snapshot(IF total_pressure > 0
                 THEN [p EXCEPT !.event_impact =
                           @ - RoundHalfEven(total_pressure * 5, 100)]
                 ELSE p)

\* _run_step, "Pressure from opponents" and snapshot
apply_pressure(p, ps, coh) ==
    LET opps == SelectSeq(ps, LAMBDA o : o.team # p.team)
        total_pressure ==
            SumSeq([i \in 1..Len(opps) |-> compute_impact(opps[i], p, coh)])
        p1 == IF total_pressure > 0
              THEN recalc_pmu([p EXCEPT !.event_impact =
                                   @ - RoundHalfEven(total_pressure * 5, 100)])
              ELSE p
    IN  snapshot(p1)

PureUnchanged == UNCHANGED <<ep, dk, ag, rq, call>>

EngineUnchanged == UNCHANGED <<config, squad_def, mc, players, match_state, sim>>

\* no EventProcessor, DecayModel, _aggregate call and no request in progress
PureIdle == ep = <<>> /\ dk = <<>> /\ ag = <<>> /\ rq = <<>> /\ call = <<>>

\* no MonteCarloEngine constructed
EngineIdle ==
    /\ config = <<>>
    /\ squad_def = SelectSeq(DEFAULT_SQUAD, LAMBDA row : row.id \in SquadIds)
    /\ mc = [pc |-> "off"]
    /\ players = <<>>
    /\ match_state = NoMatchState
    /\ sim = NoSim

\* MonteCarloEngine.__init__
Init ==
    /\ PureIdle
    /\ squad_def = SelectSeq(DEFAULT_SQUAD, LAMBDA row : row.id \in SquadIds)
    /\ config \in ConfigInputs
    /\ mc = [pc |-> "loop", iterations |-> Get(config, "iterations", 500),
             started |-> 0, results |-> <<>>, aggregate |-> NoAggregate]
    /\ players = <<>>
    /\ match_state = NoMatchState
    /\ sim = NoSim

\* MonteCarloEngine.run, loop body: sim = MatchSimulator(...)
MCIterate ==
    /\ mc.pc = "loop" /\ sim.pc = "none"
    /\ mc.started < mc.iterations
    /\ mc.started < MaxIterations
    /\ \E xy \in RandPlacements : players' = build_squads(squad_def, xy)
    /\ match_state' = new_match_state(Get(config, "start_minute", 0),
                                      Get(config, "crowd_noise", 800))
    /\ sim' = [pc |-> "run",
               formation_a  |-> Get(config, "formation", <<4, 3, 3>>),
               formation_b  |-> Get(config, "formation_b", <<4, 4, 2>>),
               tactic_a     |-> lower(Get(config, "tactic", "balanced")),
               tactic_b     |-> lower(Get(config, "tactic_b", "balanced")),
               start_minute |-> Get(config, "start_minute", 0),
               end_minute   |-> Get(config, "end_minute", 90),
               crowd_noise  |-> Get(config, "crowd_noise", 800),
               minute       |-> Get(config, "start_minute", 0),
               idx |-> 0, action |-> "", evt |-> "", coh_a |-> 0, coh_b |-> 0]
    /\ mc' = [mc EXCEPT !.started = @ + 1]
    /\ UNCHANGED <<config, squad_def>>
    /\ PureUnchanged

\* MatchSimulator.run, loop head, and the first lines of _run_step
SimStep ==
    /\ sim.pc = "run"
    /\ sim.minute <= sim.end_minute
    /\ sim' = [sim EXCEPT
                 !.pc = "event", !.idx = 1,
                 !.coh_a = coherence(SelectSeq(players, LAMBDA p : p.team = "A"),
                                     sim.formation_a),
                 !.coh_b = coherence(SelectSeq(players, LAMBDA p : p.team = "B"),
                                     sim.formation_b)]
    /\ UNCHANGED <<config, squad_def, mc, players, match_state>>
    /\ PureUnchanged

\* _run_step: decide, attempt, impact, log and goal handling for one player
PlayerEvent ==
    /\ sim.pc = "event"
    /\ LET p        == players[sim.idx]
           gs       == IF p.team = "A" THEN match_state.game_state_a
                       ELSE match_state.game_state_b
           tmod_a   == tactic_mods(sim.tactic_a)
           tmod_b   == tactic_mods(sim.tactic_b)
           tmod     == IF p.team = "A" THEN tmod_a ELSE tmod_b
           has_poss == match_state.possession_team = p.team
       IN  \E action \in decide_action(p, gs, has_poss, match_state.ball_x) :
           \E out \in attempt_action(action, p) :
             LET success == out[1]
                 evt     == out[2]
                 acted   == [players EXCEPT ![sim.idx] =
                                apply_event(p, sim.minute, action, evt, success,
                                            gs, tmod)]
             IN  /\ players' =
                        IF evt = "goal"
                        THEN [i \in DOMAIN acted |->
                                IF acted[i].team # p.team
                                THEN apply_goal_conceded(acted[i], sim.minute, tmod_b)
                                ELSE acted[i]]
                        ELSE acted
                 /\ match_state' = IF evt = "goal"
                                   THEN goal_scored(match_state, p.team)
                                   ELSE match_state
                 /\ sim' = [sim EXCEPT !.pc = "fatigue", !.action = action,
                                       !.evt = evt]
    /\ UNCHANGED <<config, squad_def, mc>>
    /\ PureUnchanged

\* _run_step: FatigueModel.update for the current player
PlayerFatigue ==
    /\ sim.pc = "fatigue"
    /\ \E sf \in RandSpeedFactor, d \in RandDistance, is_stoppage \in RandStoppage :
          players' = [players EXCEPT ![sim.idx] =
              \* speed = player.speed * random.uniform(0.3, 0.9)
              FatigueModel_update(@, @.speed * sf, d, 0,
                  IF sim.action \in {"press", "dribble", "tackle"} THEN 1 ELSE 0,
                  is_stoppage)]
    /\ sim' = [sim EXCEPT !.pc = "decay"]
    /\ UNCHANGED <<config, squad_def, mc, match_state>>
    /\ PureUnchanged

\* _run_step: DecayModel.apply(player, evt_type, dt=1.0)
PlayerDecay ==
    /\ sim.pc = "decay"
    /\ players' = [players EXCEPT ![sim.idx] = DecayModel_apply(@, sim.evt, 1)]
    /\ sim' = [sim EXCEPT !.pc = "crowd"]
    /\ UNCHANGED <<config, squad_def, mc, match_state>>
    /\ PureUnchanged

\* _run_step: CrowdEngine.compute and CrowdEngine.apply
PlayerCrowd ==
    /\ sim.pc = "crowd"
    /\ LET p == players[sim.idx]
           crowd_val == CrowdEngine_compute(p, sim.crowd_noise, p.team = "A",
                            80000 + RoundHalfEven(p.fatigue * 4, 10),
                            80000 - RoundHalfEven(p.fatigue * 3, 10))
       IN  players' = [players EXCEPT ![sim.idx] = CrowdEngine_apply(p, crowd_val)]
    /\ sim' = [sim EXCEPT !.pc = "pressure"]
    /\ UNCHANGED <<config, squad_def, mc, match_state>>
    /\ PureUnchanged

\* _run_step: pressure from opponents, snapshot, next player
PlayerPressure ==
    /\ sim.pc = "pressure"
    /\ LET p   == players[sim.idx]
           coh == IF p.team = "A" THEN sim.coh_a ELSE sim.coh_b
       IN  players' = [players EXCEPT ![sim.idx] = apply_pressure(p, players, coh)]
    /\ sim' = IF sim.idx < Len(players)
              THEN [sim EXCEPT !.pc = "event", !.idx = @ + 1]
              ELSE [sim EXCEPT !.pc = "endstep"]
    /\ UNCHANGED <<config, squad_def, mc, match_state>>
    /\ PureUnchanged

\* _run_step: "Randomly switch possession", then match_state.minute = minute
EndStep ==
    /\ sim.pc = "endstep"
    /\ \/ match_state' = [match_state EXCEPT !.minute = sim.minute]
       \/ \E bx \in RandBallX, by \in RandBallY :
            match_state' = [switch_possession(match_state) EXCEPT
                               !.ball_x = bx, !.ball_y = by, !.minute = sim.minute]
    /\ sim' = [sim EXCEPT !.pc = "run", !.minute = @ + 1]
    /\ UNCHANGED <<config, squad_def, mc, players>>
    /\ PureUnchanged

\* a run that also leaves its loop as soon as team B has the ball
SimCollate_early ==
    /\ sim.pc = "run"
    /\ sim.minute > sim.end_minute \/ match_state.possession_team = "B"
    /\ mc' = [mc EXCEPT !.results =
                 Append(@, collate_results(players, match_state,
                                           sim.formation_a, sim.formation_b))]
    /\ sim' = NoSim
    /\ UNCHANGED <<config, squad_def, players, match_state>>
    /\ PureUnchanged

\* MatchSimulator.run returns _collate_results(); MonteCarloEngine.run
\* appends it to results
SimCollate ==
    /\ sim.pc = "run"
    /\ sim.minute > sim.end_minute
    /\ mc' = [mc EXCEPT !.results =
                 Append(@, collate_results(players, match_state,
                                           sim.formation_a, sim.formation_b))]
    /\ sim' = NoSim
    /\ UNCHANGED <<config, squad_def, players, match_state>>
    /\ PureUnchanged

\* the exception of one iteration caught inside the loop, the iteration skipped
SimRaiseSkipped ==
    /\ mc.pc = "loop"
    /\ sim.pc # "none"
    /\ sim' = NoSim
    /\ players' = <<>>
    /\ match_state' = NoMatchState
    /\ UNCHANGED <<config, squad_def, mc>>
    /\ PureUnchanged

\* An exception raised inside MatchSimulator() or sim.run(): MonteCarloEngine.run
\* has no handler, the exception leaves run() and the simulator is dropped.
SimRaise ==
    /\ mc.pc = "loop"
    /\ sim.pc # "none"
    /\ mc' = [mc EXCEPT !.pc = "raised"]
    /\ sim' = NoSim
    /\ players' = <<>>
    /\ match_state' = NoMatchState
    /\ UNCHANGED <<config, squad_def>>
    /\ PureUnchanged

\* MonteCarloEngine.run: return self._aggregate(results); N = 0 divides by zero
MCAggregate ==
    /\ mc.pc = "loop" /\ sim.pc = "none"
    /\ mc.started >= mc.iterations
    /\ mc' = IF Len(mc.results) = 0
             THEN [mc EXCEPT !.pc = "raised"]
             ELSE [mc EXCEPT !.pc = "done", !.aggregate = aggregate(mc.results)]
    /\ UNCHANGED <<config, squad_def, players, match_state, sim>>
    /\ PureUnchanged

Next ==
    \/ MCIterate
    \/ SimStep
    \/ PlayerEvent
    \/ PlayerFatigue
    \/ PlayerDecay
    \/ PlayerCrowd
    \/ PlayerPressure
    \/ EndStep
    \/ SimCollate
    \/ SimRaise
    \/ MCAggregate

Spec == Init /\ [][Next]_vars

----------------------------------------------------------------------------
(* EventProcessor.compute as called on its own (POST /api/event) *)

EventTypeInputs == DOMAIN EVENT_BASE_IMPACTS \cup {"unknown_event"}

PositionInputs == {"GK", "DEF", "MID", "FWD", "SUB"}

GameStateInputs == {"leading", "tied", "losing", "unknown_state"}

XInputs == {10, 50, 90}

MinuteInputs == {0, 45, 90}

InitEvent ==
    /\ ep \in [event_type : EventTypeInputs, position : PositionInputs,
               team : {"A", "B"}, x : XInputs, game_state : GameStateInputs,
               minute : MinuteInputs, success : BOOLEAN,
               done : {FALSE}, impact : {0}]
    /\ dk = <<>> /\ ag = <<>> /\ rq = <<>> /\ call = <<>>
    /\ EngineIdle

\* impact = EventProcessor.compute(event_type, player, game_state, minute, success)
EventCompute ==
    /\ ~ep.done
    /\ ep' = [ep EXCEPT !.done = TRUE,
                        !.impact = EventProcessor_compute(
                            ep.event_type, ep.position, ep.team, ep.x,
                            ep.game_state, ep.minute, ep.success)]
    /\ UNCHANGED <<dk, ag, rq, call>>
    /\ EngineUnchanged

NextEvent == EventCompute

SpecEvent == InitEvent /\ [][NextEvent]_vars

----------------------------------------------------------------------------
(* DecayModel.apply on two players that differ in resilience tier only *)

\* longest sequence of DecayModel.apply calls
MaxDecayCalls == 2

\* event_impact the two players start from, thousandths
ImpactInputs == {-5000, 0, 1, 100, 3000, 25000}

DecayEventInputs == {"goal_conceded", "goal", "pass", "press"}

DtInputs == {0, 1, 3}

\* the player of squad row A2 with the given tier and event_impact
decay_subject(tier, event_impact) ==
    LET row == [DEFAULT_SQUAD[2] EXCEPT !.tier = tier]
    IN  recalc_pmu([build_player(row, 52, 34) EXCEPT !.event_impact = event_impact])

InitDecay ==
    /\ \E e \in ImpactInputs :
          dk = [veteran |-> decay_subject("veteran", e),
                rookie  |-> decay_subject("rookie", e),
                before  |-> [veteran |-> e, rookie |-> e],
                calls   |-> 0]
    /\ ep = <<>> /\ ag = <<>> /\ rq = <<>> /\ call = <<>>
    /\ EngineIdle

\* DecayModel.apply(player, event_type, dt) on both players
DecayApply ==
    /\ dk.calls < MaxDecayCalls
    /\ \E event_type \in DecayEventInputs, dt \in DtInputs :
          dk' = [veteran |-> DecayModel_apply(dk.veteran, event_type, dt),
                 rookie  |-> DecayModel_apply(dk.rookie, event_type, dt),
                 before  |-> [veteran |-> dk.veteran.event_impact,
                              rookie  |-> dk.rookie.event_impact],
                 calls   |-> dk.calls + 1]
    /\ UNCHANGED <<ep, ag, rq, call>>
    /\ EngineUnchanged

NextDecay == DecayApply

SpecDecay == InitDecay /\ [][NextDecay]_vars

----------------------------------------------------------------------------
(* MonteCarloEngine._aggregate on a list of results *)

\* longest list of results
MaxResults == 3

\* largest number of goals of one team in a result
MaxGoals == 1

\* results of MatchSimulator.run with the given score
result_with_score(a, b) ==
    [score      |-> [A |-> a, B |-> b],
     game_state |-> [team_a |-> update_game_states(
                                   [score_a |-> a, score_b |-> b,
                                    game_state_a |-> "tied",
                                    game_state_b |-> "tied"]).game_state_a,
                     team_b |-> update_game_states(
                                   [score_a |-> a, score_b |-> b,
                                    game_state_a |-> "tied",
                                    game_state_b |-> "tied"]).game_state_b],
     team_a     |-> [avg_pmu |-> 18850 + 1000 * a, peak_pmu |-> 18850 + 1000 * a,
                     min_pmu |-> 18850 + 1000 * a, total_pmu |-> 18850 + 1000 * a,
                     avg_fatigue |-> 580],
     team_b     |-> [avg_pmu |-> 18680 + 1000 * b, peak_pmu |-> 18680 + 1000 * b,
                     min_pmu |-> 18680 + 1000 * b, total_pmu |-> 18680 + 1000 * b,
                     avg_fatigue |-> 580],
     formation_coherence |-> [A |-> 8700, B |-> 8400]]

ResultInputs == {result_with_score(a, b) : a \in 0..MaxGoals, b \in 0..MaxGoals}

InitAggregate ==
    /\ \E n \in 1..MaxResults :
       \E results \in [1..n -> ResultInputs] :
          ag = [results |-> results, done |-> FALSE, out |-> NoAggregate]
    /\ ep = <<>> /\ dk = <<>> /\ rq = <<>> /\ call = <<>>
    /\ EngineIdle

\* self._aggregate(results)
AggregateApply ==
    /\ ~ag.done
    /\ ag' = [ag EXCEPT !.done = TRUE, !.out = aggregate(ag.results)]
    /\ UNCHANGED <<ep, dk, rq, call>>
    /\ EngineUnchanged

NextAggregate == AggregateApply

SpecAggregate == InitAggregate /\ [][NextAggregate]_vars

----------------------------------------------------------------------------
(* Request validation (middleware/validation.py) and the handlers of app.py *)
(* that construct a simulator or compute a coherence                       *)

VALID_TACTICS == {"aggressive", "balanced", "defensive", "possession"}

MIN_ITERATIONS == 10

MAX_ITERATIONS == 2000

\* "if iterations > 300: iterations = 300" of the sweep handlers
SWEEP_MAX_ITERATIONS == 300

\* formations and tactics swept by /api/sweep and /api/sweep/stream
SWEEP_FORMATIONS == {<<4, 3, 3>>, <<4, 4, 2>>, <<3, 5, 2>>, <<5, 3, 2>>}

SWEEP_TACTICS == {"aggressive", "balanced", "defensive", "possession"}

\* validate_formation accepts: at least two groups, all of digits, each line
\* 1..6, sum 10, 2..5 lines
formation_ok(f) ==
    /\ Len(f) >= 2
    /\ \A i \in DOMAIN f : f[i] >= 0
    /\ \A i \in DOMAIN f : f[i] >= 1 /\ f[i] <= 6
    /\ SumSeq(f) = 10
    /\ Len(f) >= 2 /\ Len(f) <= 5

\* validate_tactic accepts, and returns tactic_name.lower()
tactic_ok(t) == lower(t) \in VALID_TACTICS

\* validate_iterations accepts
iterations_ok(n) == n >= MIN_ITERATIONS /\ n <= MAX_ITERATIONS

\* what a MatchSimulator built from these arguments uses in _run_step
simulator_of(formation_a, formation_b, tactic_a, tactic_b) ==
    [formation_a |-> formation_a, formation_b |-> formation_b,
     tactic_a |-> tactic_a, tactic_b |-> tactic_b,
     tmod_a |-> tactic_mods(tactic_a), tmod_b |-> tactic_mods(tactic_b)]

Paths == {"/api/simulate", "/api/sweep", "/api/sweep/stream",
          "/api/simulate/quick", "/api/match-events", "/api/pressure"}

FormationInputs == {<<4, 3, 3>>, <<5, 2, 3>>, <<7, 7>>}

FormationBInputs == {<<4, 4, 2>>, <<7, 7>>}

TacticInputs == {"balanced", "Aggressive", "wild"}

TacticBInputs == {"defensive", "wild"}

IterationInputs == {5, 100, 500, 2001}

InitRequest ==
    /\ rq \in [path : Paths, formation : FormationInputs,
               formation_b : FormationBInputs, tactic : TacticInputs,
               tactic_b : TacticBInputs, iterations : IterationInputs,
               status : {"received"}, sims : {{}}, runs : {0}]
    /\ ep = <<>> /\ dk = <<>> /\ ag = <<>> /\ call = <<>>
    /\ EngineIdle

\* a response: 400 for a ValidationError, else the simulators that were run
\* and the number of MatchSimulator runs per simulator configuration
Rejected == [rq EXCEPT !.status = "rejected"]

Served(sims, runs) == [rq EXCEPT !.status = "served", !.sims = sims, !.runs = runs]

\* simulate(): POST /api/simulate
HandleSimulate ==
    /\ rq.path = "/api/simulate" /\ rq.status = "received"
    /\ rq' = IF /\ formation_ok(rq.formation) /\ formation_ok(rq.formation_b)
                /\ tactic_ok(rq.tactic) /\ tactic_ok(rq.tactic_b)
                /\ iterations_ok(rq.iterations)
             THEN Served({simulator_of(rq.formation, rq.formation_b,
                                       lower(lower(rq.tactic)),
                                       lower(lower(rq.tactic_b)))},
                         rq.iterations)
             ELSE Rejected
    /\ UNCHANGED <<ep, dk, ag, call>>
    /\ EngineUnchanged

\* the 16 engine runs of a sweep
sweep_sims ==
    {simulator_of(f, rq.formation_b, lower(t), lower(lower(rq.tactic_b))) :
        f \in SWEEP_FORMATIONS, t \in SWEEP_TACTICS}

\* sweep_scenarios(): POST /api/sweep
HandleSweep ==
    /\ rq.path = "/api/sweep" /\ rq.status = "received"
    /\ rq' = IF /\ iterations_ok(rq.iterations) /\ formation_ok(rq.formation_b)
                /\ tactic_ok(rq.tactic_b)
             THEN Served(sweep_sims, Min(rq.iterations, SWEEP_MAX_ITERATIONS))
             ELSE Rejected
    /\ UNCHANGED <<ep, dk, ag, call>>
    /\ EngineUnchanged

\* sweep_scenarios_stream(): POST /api/sweep/stream, and its worker thread
HandleSweepStream ==
    /\ rq.path = "/api/sweep/stream" /\ rq.status = "received"
    /\ rq' = IF /\ iterations_ok(rq.iterations) /\ formation_ok(rq.formation_b)
                /\ tactic_ok(rq.tactic_b)
             THEN Served(sweep_sims, Min(rq.iterations, SWEEP_MAX_ITERATIONS))
             ELSE Rejected
    /\ UNCHANGED <<ep, dk, ag, call>>
    /\ EngineUnchanged

\* simulate_quick(): POST /api/simulate/quick
HandleSimulateQuick ==
    /\ rq.path = "/api/simulate/quick" /\ rq.status = "received"
    /\ rq' = Served({simulator_of(rq.formation, rq.formation_b,
                                  lower(rq.tactic), lower(rq.tactic_b))}, 1)
    /\ UNCHANGED <<ep, dk, ag, call>>
    /\ EngineUnchanged

\* get_match_events(): POST /api/match-events
HandleMatchEvents ==
    /\ rq.path = "/api/match-events" /\ rq.status = "received"
    /\ rq' = Served({simulator_of(rq.formation, rq.formation_b,
                                  lower(rq.tactic), lower(rq.tactic_b))}, 1)
    /\ UNCHANGED <<ep, dk, ag, call>>
    /\ EngineUnchanged

\* compute_pressure(): POST /api/pressure calls
\* FormationEngine.coherence(pressurer_states, formation); no simulator runs
HandlePressure ==
    /\ rq.path = "/api/pressure" /\ rq.status = "received"
    /\ rq' = Served({[formation_a |-> rq.formation]}, 0)
    /\ UNCHANGED <<ep, dk, ag, call>>
    /\ EngineUnchanged

NextRequest ==
    \/ HandleSimulate
    \/ HandleSweep
    \/ HandleSweepStream
    \/ HandleSimulateQuick
    \/ HandleMatchEvents
    \/ HandlePressure

SpecRequest == InitRequest /\ [][NextRequest]_vars

----------------------------------------------------------------------------
(* Properties *)

\* C1: between the operations of a MatchSimulator run every player's pmu
\* equals clamp(baseline_energy + event_impact + crowd_impact - 0.30*fatigue,
\* 0, 100), hence lies in [0, 100] and is never stale.
C1_PmuIsClampedSum ==
    \A i \in DOMAIN players :
        LET p == players[i]
        IN  /\ p.pmu = Clip(p.baseline_energy + p.event_impact + p.crowd_impact
                            - RoundHalfEven(p.fatigue * 30, 100), 0, 100000)
            /\ p.pmu >= 0 /\ p.pmu <= 100000

\* a player that conceded a goal, was pressed (event_impact below zero after
\* the subtraction) and went through fatigue, decay and crowd
C1_Witness ==
    \E i \in DOMAIN players :
        LET p == players[i]
        IN  /\ \E k \in DOMAIN p.event_log : p.event_log[k].event = "goal_conceded"
            /\ p.pmu_history # <<>>
            /\ p.event_impact < 0
            /\ p.fatigue > 0
            /\ p.crowd_impact # 0

\* a freshly built simulator: nothing of an earlier run is left in it
FreshSimulator(ps, ms) ==
    /\ Len(ps) = Len(squad_def)
    /\ \A i \in DOMAIN ps :
          /\ ps[i].event_impact = 0 /\ ps[i].crowd_impact = 0
          /\ ps[i].fatigue = 0 /\ ps[i].pmu = ps[i].baseline_energy
          /\ ps[i].pmu_history = <<>> /\ ps[i].event_log = <<>>
    /\ ms.score_a = 0 /\ ms.score_b = 0
    /\ ms.game_state_a = "tied" /\ ms.game_state_b = "tied"
    /\ ms.possession_team = "A" /\ ms.ball_x = 525

\* C2: no step writes to the squad template or to the engine config, and each
\* iteration starts from players and a match state built fresh, whatever
\* the earlier iterations did.
C2_IterationsShareNothing ==
    [][/\ squad_def' = squad_def
       /\ config' = config
       /\ (mc.pc = "loop" /\ mc'.started > mc.started
             => FreshSimulator(players', match_state'))]_vars

\* the second iteration has just been constructed after a first one that
\* changed its players
C2_Witness ==
    /\ mc.pc = "loop" /\ mc.started = 2 /\ sim.pc = "run"
    /\ sim.minute = sim.start_minute
    /\ Len(mc.results) = 1 /\ mc.results[1].team_a.avg_fatigue > 0
    /\ FreshSimulator(players, match_state)

\* the reported outcome distribution of an aggregate, ten-thousandths
ReportedSum(out) ==
    out.outcomeDistribution.teamA_wins + out.outcomeDistribution.teamB_wins
    + out.outcomeDistribution.draws

\* C3 as claimed: the three reported frequencies sum to 1.0 and the counts
\* sum to N.
C3_ReportedSumIsOne ==
    ag.done =>
        /\ ReportedSum(ag.out) = 10000
        /\ ag.out.wins_a + ag.out.wins_b + ag.out.draws = Len(ag.results)
        /\ ag.out.wins_a >= 0 /\ ag.out.wins_b >= 0 /\ ag.out.draws >= 0

\* C3 as amended: the counts are non-negative and sum to N, each reported
\* frequency is count/N rounded to 4 decimals, and the three reported
\* frequencies sum to 1.0 within 0.0001.
C3_ReportedSumNearOne ==
    ag.done =>
        LET N == Len(ag.results)
            d == ag.out.outcomeDistribution
        IN  /\ ag.out.wins_a + ag.out.wins_b + ag.out.draws = N
            /\ ag.out.wins_a >= 0 /\ ag.out.wins_b >= 0 /\ ag.out.draws >= 0
            /\ 2 * Abs(d.teamA_wins * N - ag.out.wins_a * 10000) <= N
            /\ 2 * Abs(d.teamB_wins * N - ag.out.wins_b * 10000) <= N
            /\ 2 * Abs(d.draws * N - ag.out.draws * 10000) <= N
            /\ Abs(ReportedSum(ag.out) - 10000) <= 1

\* three results, one win each and one draw: 0.3333 three times
C3_Witness ==
    /\ ag.done /\ Len(ag.results) = 3
    /\ ag.out.wins_a = 1 /\ ag.out.wins_b = 1 /\ ag.out.draws = 1
    /\ ReportedSum(ag.out) = 9999

\* C4: an exception in one iteration ends MonteCarloEngine.run without an
\* aggregate; no iteration is skipped; a returned aggregate covers exactly
\* the iterations that were started and says so in "iterations".
C4_FailureIsFatal ==
    /\ (mc.pc = "raised" => mc.aggregate = NoAggregate)
    /\ (mc.pc = "loop" => mc.aggregate = NoAggregate)
    /\ (mc.pc = "loop" /\ sim.pc = "none" => Len(mc.results) = mc.started)
    /\ (mc.pc = "done" => /\ Len(mc.results) = mc.started
                          /\ mc.aggregate.iterations = mc.started)

\* the run failed in a later iteration, with results of earlier ones at hand
C4_Witness ==
    /\ mc.pc = "raised" /\ mc.started = 2 /\ Len(mc.results) = 1

\* C5: whatever "iterations" the config holds, MonteCarloEngine.run executes
\* between 10 and 2000 MatchSimulator runs.
C5_RunsWithinConfiguredRange ==
    mc.pc = "done" =>
        /\ mc.started >= MIN_ITERATIONS /\ mc.started <= MAX_ITERATIONS
        /\ mc.aggregate.iterations >= MIN_ITERATIONS

\* C6: a served request ran simulators and coherence computations only on
\* formations that pass the formation rule and on the four known tactics.
C6_InvalidConfigRejected ==
    rq.status = "served" =>
        \A s \in rq.sims :
            /\ formation_ok(s.formation_a)
            /\ "formation_b" \in DOMAIN s =>
                  /\ formation_ok(s.formation_b)
                  /\ s.tactic_a \in VALID_TACTICS
                  /\ s.tactic_b \in VALID_TACTICS

\* C7: EventProcessor.compute returns a value in [-25, 25].
C7_ImpactBounded ==
    ep.done => ep.impact >= -25000 /\ ep.impact <= 25000

\* a product of factors above 25 that was clipped
C7_Witness ==
    /\ ep.done /\ ep.impact = 25000
    /\ RawImpact(ep.event_type, ep.position, ep.team, ep.x, ep.game_state,
                 ep.minute) > 400000000

\* the impact of the same call with success = True
ImpactIfSuccessful ==
    EventProcessor_compute(ep.event_type, ep.position, ep.team, ep.x,
                           ep.game_state, ep.minute, TRUE)

\* C8 as claimed: for every event type a failed event has an impact of
\* strictly smaller magnitude than the same event succeeding.
C8_FailureStrictlySmaller ==
    ep.done /\ ~ep.success => Abs(ep.impact) < Abs(ImpactIfSuccessful)

\* C8 as amended: the same for every event type of EVENT_BASE_IMPACTS; for
\* an event type outside the table both impacts are 0.
C8_FailureSmallerForKnownEvents ==
    ep.done /\ ~ep.success =>
        IF ep.event_type \in DOMAIN EVENT_BASE_IMPACTS
        THEN Abs(ep.impact) < Abs(ImpactIfSuccessful)
        ELSE ep.impact = 0 /\ ImpactIfSuccessful = 0

\* a failed known event whose successful counterpart is clipped at 25
C8_Witness ==
    /\ ep.done /\ ~ep.success
    /\ ep.event_type \in DOMAIN EVENT_BASE_IMPACTS
    /\ ep.impact # 0
    /\ ImpactIfSuccessful = 25000

\* C9: DecayModel.apply leaves event_impact at or above zero and no larger
\* in magnitude than it was before the call.
C9_DecayTowardZero ==
    dk.calls > 0 =>
        /\ dk.veteran.event_impact >= 0
        /\ dk.rookie.event_impact >= 0
        /\ Abs(dk.veteran.event_impact) <= Abs(dk.before.veteran)
        /\ Abs(dk.rookie.event_impact) <= Abs(dk.before.rookie)

\* a call that found event_impact negative
C9_Witness ==
    /\ dk.calls > 0 /\ dk.before.veteran < 0 /\ dk.veteran.event_impact = 0

\* C10 as claimed: after every call the veteran's event_impact is strictly
\* greater than the rookie's.
C10_VeteranStrictlyGreater ==
    dk.calls > 0 => dk.veteran.event_impact > dk.rookie.event_impact

\* C10 as amended: after every call the veteran's event_impact is at least
\* the rookie's, and strictly greater as long as the veteran's is above zero.
C10_VeteranAtLeastRookie ==
    dk.calls > 0 =>
        /\ dk.veteran.event_impact >= dk.rookie.event_impact
        /\ (dk.veteran.event_impact > 0 =>
                dk.veteran.event_impact > dk.rookie.event_impact)

\* two calls after which both players still hold impact
C10_Witness ==
    /\ dk.calls = 2
    /\ dk.rookie.event_impact > 0
    /\ dk.veteran.event_impact > dk.rookie.event_impact

----------------------------------------------------------------------------
(* PressureEngine.compute_impact on one pressurer and two target distances *)

\* pressurer pmu, thousandths
PressurerPmuInputs == {1000, 60000, 100000}

\* formation_coherence, ten-thousandths
CoherenceInputs == {7000, 8700, 9200}

\* pressurer-target distances, metres
DistanceInputs == {0, 1, 3, 10, 40, 80}

\* the player of squad row A2 placed at (x, 34) with the given pmu
pressure_subject(x, pmu) ==
    [build_player(DEFAULT_SQUAD[2], x, 34) EXCEPT !.pmu = pmu]

InitPressure ==
    /\ \E pmu \in PressurerPmuInputs, coh \in CoherenceInputs,
          d1 \in DistanceInputs, d2 \in DistanceInputs :
          /\ d1 < d2
          /\ call = [fn |-> "compute_impact", pmu |-> pmu, coherence |-> coh,
                     d1 |-> d1, d2 |-> d2, done |-> FALSE,
                     impact1 |-> 0, impact2 |-> 0]
    /\ ep = <<>> /\ dk = <<>> /\ ag = <<>> /\ rq = <<>>
    /\ EngineIdle

\* PressureEngine.compute_impact(pressurer, target, coherence) for the target
\* at distance d1 and for the target at distance d2
PressureCompute ==
    /\ ~call.done
    /\ call' = [call EXCEPT
                  !.done = TRUE,
                  !.impact1 = compute_impact(pressure_subject(10, call.pmu),
                                             pressure_subject(10 + call.d1, 0),
                                             call.coherence),
                  !.impact2 = compute_impact(pressure_subject(10, call.pmu),
                                             pressure_subject(10 + call.d2, 0),
                                             call.coherence)]
    /\ UNCHANGED <<ep, dk, ag, rq>>
    /\ EngineUnchanged

NextPressure == PressureCompute

SpecPressure == InitPressure /\ [][NextPressure]_vars

\* C11: with pressurer pmu and coherence fixed and positive, the impact at
\* the smaller of two distances is strictly greater than at the larger one.
C11_ImpactStrictlyDecreasing ==
    call.done => call.impact1 > call.impact2

----------------------------------------------------------------------------
(* CrowdEngine.compute on one player *)

TierInputs == {"veteran", "experienced", "young", "rookie", "unknown"}

\* noise_db, tenths of a dB
NoiseInputs == {750, 800, 1200}

\* heart_rate, thousandths of a beat per minute
HeartRateInputs == {60000, 90000, 110000, 200000}

\* hrv, thousandths of a millisecond
HrvInputs == {0, 70000, 300000}

\* the player of squad row A2 with the given tier
crowd_subject(tier) ==
    build_player([DEFAULT_SQUAD[2] EXCEPT !.tier = tier], 52, 34)

InitCrowd ==
    /\ \E tier \in TierInputs, noise_db \in NoiseInputs, is_home \in BOOLEAN,
          heart_rate \in HeartRateInputs, hrv \in HrvInputs :
          call = [fn |-> "CrowdEngine.compute", tier |-> tier,
                  noise_db |-> noise_db, is_home |-> is_home,
                  heart_rate |-> heart_rate, hrv |-> hrv,
                  done |-> FALSE, impact |-> 0]
    /\ ep = <<>> /\ dk = <<>> /\ ag = <<>> /\ rq = <<>>
    /\ EngineIdle

\* CrowdEngine.compute(player, noise_db, is_home, heart_rate, hrv)
CrowdCompute ==
    /\ ~call.done
    /\ call' = [call EXCEPT
                  !.done = TRUE,
                  !.impact = CrowdEngine_compute(crowd_subject(call.tier),
                                                 call.noise_db, call.is_home,
                                                 call.heart_rate, call.hrv)]
    /\ UNCHANGED <<ep, dk, ag, rq>>
    /\ EngineUnchanged

NextCrowd == CrowdCompute

SpecCrowd == InitCrowd /\ [][NextCrowd]_vars

\* C12: at 75 dB the crowd impact is 0 for home and away players; at 120 dB
\* it is strictly positive for a home player and strictly negative for an
\* away player, for every tier, heart rate and HRV.
C12_NeutralAndLoudCrowd ==
    call.done =>
        /\ (call.noise_db = 750 => call.impact = 0)
        /\ (call.noise_db = 1200 /\ call.is_home => call.impact > 0)
        /\ (call.noise_db = 1200 /\ ~call.is_home => call.impact < 0)

\* the least affected away player under a loud crowd: veteran, low heart
\* rate, high HRV
C12_Witness ==
    /\ call.done /\ call.noise_db = 1200 /\ ~call.is_home
    /\ call.tier = "veteran" /\ call.heart_rate = 60000 /\ call.hrv = 300000
    /\ call.impact < 0

----------------------------------------------------------------------------
(* Applying a crowd impact: CrowdEngine.apply of the simulation engine and *)
(* CrowdInfluenceModel.apply_crowd_impact_to_pmu of core/crowd.py          *)

\* CrowdInfluenceModel.apply_crowd_impact_to_pmu:
\* max(0, pmu * (1.0 + (crowd_impact / 8) * 0.15)), thousandths
apply_crowd_impact_to_pmu(pmu, crowd_impact) ==
    Max(0, pmu + RoundHalfEven(RoundHalfEven(pmu * crowd_impact, 8) * 15, 100000))

CrowdApplyFns == {"CrowdEngine.apply", "apply_crowd_impact_to_pmu"}

\* crowd_val, thousandths
CrowdValInputs == {-8000, -358, 0, 462, 8000}

\* event_impact of the player, thousandths
CrowdEventImpactInputs == {-5000, 0, 20000}

\* fatigue of the player, thousandths
CrowdFatigueInputs == {0, 40000}

\* the player of squad row A2 with the given accumulators and no crowd impact
crowd_apply_subject(event_impact, fatigue) ==
    recalc_pmu([build_player(DEFAULT_SQUAD[2], 52, 34) EXCEPT
                   !.event_impact = event_impact, !.fatigue = fatigue])

InitCrowdApply ==
    /\ \E fn \in CrowdApplyFns, crowd_val \in CrowdValInputs,
          event_impact \in CrowdEventImpactInputs, fatigue \in CrowdFatigueInputs :
          call = [fn |-> fn, crowd_val |-> crowd_val,
                  pmu_before |-> crowd_apply_subject(event_impact, fatigue).pmu,
                  player |-> crowd_apply_subject(event_impact, fatigue),
                  done |-> FALSE]
    /\ ep = <<>> /\ dk = <<>> /\ ag = <<>> /\ rq = <<>>
    /\ EngineIdle

\* CrowdEngine.apply(player, crowd_val), as _run_step and /api/crowd call it
CrowdApply ==
    /\ ~call.done /\ call.fn = "CrowdEngine.apply"
    /\ call' = [call EXCEPT !.done = TRUE,
                            !.player = CrowdEngine_apply(@, call.crowd_val)]
    /\ UNCHANGED <<ep, dk, ag, rq>>
    /\ EngineUnchanged

\* pmu = apply_crowd_impact_to_pmu(pmu, crowd_val)
CrowdApplyToPmu ==
    /\ ~call.done /\ call.fn = "apply_crowd_impact_to_pmu"
    /\ call' = [call EXCEPT
                  !.done = TRUE,
                  !.player.pmu = apply_crowd_impact_to_pmu(@, call.crowd_val)]
    /\ UNCHANGED <<ep, dk, ag, rq>>
    /\ EngineUnchanged

NextCrowdApply == CrowdApply \/ CrowdApplyToPmu

SpecCrowdApply == InitCrowdApply /\ [][NextCrowdApply]_vars

\* C13: applying a crowd impact in [-8, 8] changes the player's PMU by at
\* most 15 % of the PMU the player has with zero crowd impact.
C13_CrowdAdjustmentWithin15Percent ==
    call.done =>
        100 * Abs(call.player.pmu - call.pmu_before) <= 15 * call.pmu_before

----------------------------------------------------------------------------
(* compute_formation_coherence and FormationEngine.coherence on one call *)

\* formation strings: presets, parseable patterns outside the table, the
\* empty string, and strings with a group that int() rejects
CoherenceFormationInputs ==
    {<<4, 3, 3>>, <<4, 2, 3, 1>>, <<4, 2, 4>>, <<3, 3, 4>>, <<5, 5>>, <<9, 1>>,
     <<7, 7>>, <<10>>, <<0, 0>>, <<1, 1, 1, 1, 1, 1, 1, 1, 1, 1>>, <<99, 1>>,
     <<>>, <<-1>>, <<4, -1, 3>>}

\* the players handed to FormationEngine.coherence: squad rows with their
\* (x, y); rows 3, 4 and 5 are defenders, row 2 is a midfielder
CoherencePlayerInputs ==
    {<<>>,
     <<<<2, 50, 30>>>>,
     <<<<3, 20, 30>>, <<2, 50, 30>>>>,
     <<<<3, 20, 30>>, <<4, 20, 30>>>>,
     <<<<3, 0, 0>>, <<4, 105, 68>>>>,
     <<<<3, 20, 10>>, <<4, 25, 34>>, <<5, 22, 60>>, <<2, 50, 30>>>>}

\* the PlayerState list of one input
coherence_players(rows) ==
    [i \in 1..Len(rows) |-> build_player(DEFAULT_SQUAD[rows[i][1]], rows[i][2], rows[i][3])]

InitCoherence ==
    /\ \E formation \in CoherenceFormationInputs, rows \in CoherencePlayerInputs :
          call = [fn |-> "FormationEngine.coherence", formation |-> formation,
                  players |-> coherence_players(rows),
                  done |-> FALSE, lookup |-> 0, coherence |-> 0]
    /\ ep = <<>> /\ dk = <<>> /\ ag = <<>> /\ rq = <<>>
    /\ EngineIdle

\* compute_formation_coherence(formation) and
\* FormationEngine.coherence(players, formation)
CoherenceCompute ==
    /\ ~call.done
    /\ call' = [call EXCEPT
                  !.done = TRUE,
                  !.lookup = compute_formation_coherence(call.formation),
                  !.coherence = coherence(call.players, call.formation)]
    /\ UNCHANGED <<ep, dk, ag, rq>>
    /\ EngineUnchanged

NextCoherence == CoherenceCompute

SpecCoherence == InitCoherence /\ [][NextCoherence]_vars

\* C14: compute_formation_coherence returns a value in [0.70, 0.92] for
\* every formation string, and FormationEngine.coherence a value in [0, 1]
\* for every list of players.
C14_CoherenceBounded ==
    call.done =>
        /\ call.lookup >= 70 /\ call.lookup <= 92
        /\ call.coherence >= 0 /\ call.coherence <= 10000

\* a formation whose heuristic score is below 0.70, with two defenders
\* spread over the whole pitch: 0.7 * 0.70 + 0.3 * 0 = 0.49
C14_Witness ==
    /\ call.done /\ call.formation = <<9, 1>> /\ call.lookup = 70
    /\ Len(call.players) = 2 /\ call.coherence = 4900

----------------------------------------------------------------------------
(* POST /api/fatigue: compute_fatigue of backend/app.py *)

FatiguePlayerIdInputs == {"A2", "Z9"}

\* current_fatigue of the request body, thousandths
CurrentFatigueInputs == {-20000, 0, 30000, 100000, 150000}

\* speed of the request body, ten-thousandths of a m/s
FatigueSpeedInputs == {0, 80000}

\* distance of the request body, metres
FatigueDistanceInputs == {0, 120}

FatigueAccelerationInputs == {0, 2}

FatigueSprintInputs == {0, 2}

\* next((r for r in DEFAULT_SQUAD if r["id"] == player_id), None)
squad_rows(player_id) ==
    SelectSeq(DEFAULT_SQUAD, LAMBDA row : row.id = player_id)

InitFatigue ==
    /\ \E player_id \in FatiguePlayerIdInputs,
          current_fatigue \in CurrentFatigueInputs,
          speed \in FatigueSpeedInputs, distance \in FatigueDistanceInputs,
          acceleration \in FatigueAccelerationInputs,
          sprint_events \in FatigueSprintInputs, is_stoppage \in BOOLEAN :
          call = [fn |-> "/api/fatigue", pc |-> "received",
                  player_id |-> player_id, current_fatigue |-> current_fatigue,
                  speed |-> speed, distance |-> distance,
                  acceleration |-> acceleration,
                  sprint_events |-> sprint_events, is_stoppage |-> is_stoppage,
                  player |-> <<>>]
    /\ ep = <<>> /\ dk = <<>> /\ ag = <<>> /\ rq = <<>>
    /\ EngineIdle

\* return error(f"Player {player_id!r} not found", 404)
FatigueNotFound ==
    /\ call.pc = "received"
    /\ squad_rows(call.player_id) = <<>>
    /\ call' = [call EXCEPT !.pc = "not_found"]
    /\ UNCHANGED <<ep, dk, ag, rq>>
    /\ EngineUnchanged

\* ps = build_player(row); ps.fatigue = float(current_fatigue); ps.recalc_pmu()
FatigueAssign ==
    /\ call.pc = "received"
    /\ squad_rows(call.player_id) # <<>>
    /\ call' = [call EXCEPT
                  !.pc = "assigned",
                  !.player = recalc_pmu(
                      [build_player(squad_rows(call.player_id)[1], 52, 34)
                          EXCEPT !.fatigue = call.current_fatigue])]
    /\ UNCHANGED <<ep, dk, ag, rq>>
    /\ EngineUnchanged

\* FatigueModel.update(ps, speed, distance, acceleration, sprint_events,
\* is_stoppage) and the response
FatigueUpdate ==
    /\ call.pc = "assigned"
    /\ call' = [call EXCEPT
                  !.pc = "done",
                  !.player = FatigueModel_update(@, call.speed, call.distance,
                                 call.acceleration, call.sprint_events,
                                 call.is_stoppage)]
    /\ UNCHANGED <<ep, dk, ag, rq>>
    /\ EngineUnchanged

NextFatigue == FatigueNotFound \/ FatigueAssign \/ FatigueUpdate

SpecFatigue == InitFatigue /\ [][NextFatigue]_vars

\* C15: on the /api/fatigue path, in every state after recalc_pmu() has been
\* called the player's fatigue is in [0, 100].
C15_FatigueBounded ==
    call.pc \in {"assigned", "done"} =>
        call.player.fatigue >= 0 /\ call.player.fatigue <= 100000

----------------------------------------------------------------------------
(* MatchState *)

\* C16: in every MatchState of a run the two game states follow from the
\* score and are complementary: A leading and B losing iff score_a > score_b,
\* A losing and B leading iff score_b > score_a, both tied iff the scores
\* are equal.
C16_GameStatesComplementary ==
    match_state # NoMatchState =>
        /\ match_state.game_state_a \in {"leading", "losing", "tied"}
        /\ match_state.game_state_b \in {"leading", "losing", "tied"}
        /\ (match_state.game_state_a = "leading"
               <=> match_state.score_a > match_state.score_b)
        /\ (match_state.game_state_b = "losing"
               <=> match_state.score_a > match_state.score_b)
        /\ (match_state.game_state_a = "losing"
               <=> match_state.score_b > match_state.score_a)
        /\ (match_state.game_state_b = "leading"
               <=> match_state.score_b > match_state.score_a)
        /\ (match_state.game_state_a = "tied"
               <=> match_state.score_a = match_state.score_b)
        /\ (match_state.game_state_b = "tied"
               <=> match_state.score_a = match_state.score_b)

\* team B has scored and leads
C16_Witness ==
    /\ match_state # NoMatchState
    /\ match_state.score_b > match_state.score_a
    /\ match_state.game_state_a = "losing"
    /\ match_state.game_state_b = "leading"

----------------------------------------------------------------------------
(* MonteCarloEngine._aggregate on a list of results and on a reordering *)

\* team_a.avg_pmu of the results of one run of the engine, thousandths
PermuteAvgInputs ==
    {<<12310, 26410, 17040, 21660>>,
     <<18850, 19850, 18850, 20850>>,
     <<18850, 19850, 20850>>}

\* the results with the given team_a.avg_pmu
results_with_avg(avgs) ==
    [i \in 1..Len(avgs) |->
        [result_with_score(i % 2, 0) EXCEPT !.team_a.avg_pmu = avgs[i]]]

InitPermute ==
    /\ \E avgs \in PermuteAvgInputs :
       \E perm \in Permutations(1..Len(avgs)) :
          call = [fn |-> "_aggregate", results |-> results_with_avg(avgs),
                  perm |-> perm, done |-> FALSE,
                  out |-> NoAggregate, out_permuted |-> NoAggregate]
    /\ ep = <<>> /\ dk = <<>> /\ ag = <<>> /\ rq = <<>>
    /\ EngineIdle

\* self._aggregate(results) and self._aggregate(results in the order perm)
PermuteAggregate ==
    /\ ~call.done
    /\ call' = [call EXCEPT
                  !.done = TRUE,
                  !.out = aggregate(call.results),
                  !.out_permuted =
                      aggregate([i \in 1..Len(call.results) |->
                                    call.results[call.perm[i]]])]
    /\ UNCHANGED <<ep, dk, ag, rq>>
    /\ EngineUnchanged

NextPermute == PermuteAggregate

SpecPermute == InitPermute /\ [][NextPermute]_vars

\* C17: the aggregate of a list of results equals the aggregate of every
\* reordering of the list.
C17_AggregateOrderInvariant ==
    call.done => call.out = call.out_permuted

----------------------------------------------------------------------------
(* Empty collections *)

\* C18: MonteCarloEngine.run never fails in the aggregation itself: a run
\* configured with zero iterations returns a defined aggregate over the
\* empty result list instead of raising.
C18_EmptyAggregateDefined ==
    /\ (mc.pc = "raised" => mc.started > 0)
    /\ (mc.pc = "done" => mc.aggregate # NoAggregate)

----------------------------------------------------------------------------
(* validate_formation (middleware/validation.py) on one call *)

\* The argument of validate_formation: its Python type, whether a string
\* carries leading or trailing whitespace, and the groups between its
\* hyphens as in FormationEngine, with -2 for a group of more than 4300
\* digits that does not start with 0.
ValidateTypeInputs == {"str", "NoneType", "int"}

ValidateGroupInputs ==
    {<<4, 3, 3>>, <<4, 2, 3, 1>>, <<5, 5>>, <<6, 4>>, <<1, 1, 1, 1, 6>>,
     <<6, 6, 0>>, <<7, 3>>, <<0, 5, 5>>, <<4, 4, 3>>, <<3, 3, 3>>, <<10>>,
     <<2, 2, 2, 2, 1, 1>>, <<1, 1, 1, 1, 1, 1, 1, 1, 1, 1>>,
     <<>>, <<-1>>, <<4, -1, 3>>, <<4, 3, 3, -1>>, <<-2, 1>>, <<4, -2>>}

\* formation_name.strip()
strip(formation) == [formation EXCEPT !.pad = FALSE]

\* re.match(r'^\d+(-\d+)+$', formation_name)
formation_pattern(groups) ==
    /\ Len(groups) >= 2
    /\ \A i \in DOMAIN groups : groups[i] >= 0 \/ groups[i] = -2

\* int(x) raises ValueError where the interpreter limits the length of an
\* integer string (sys.get_int_max_str_digits() = 4300)
int_raises(groups, int_max_str_digits) ==
    int_max_str_digits /\ \E i \in DOMAIN groups : groups[i] = -2

\* part < 1 or part > 6; without the limit a group of more than 4300 digits
\* is a number above 6
part_out_of_range(part) == part = -2 \/ part < 1 \/ part > 6

\* sum(parts) != 10, asked only where every part is in 1..6
parts_sum(parts) == SumSeq(parts)

InitValidate ==
    /\ \E type \in ValidateTypeInputs, pad \in BOOLEAN,
          groups \in ValidateGroupInputs, int_max_str_digits \in BOOLEAN :
          /\ type # "str" => ~pad /\ groups = <<>>
          /\ call = [fn |-> "validate_formation", pc |-> "isinstance",
                     formation |-> [type |-> type, pad |-> pad, groups |-> groups],
                     int_max_str_digits |-> int_max_str_digits,
                     formation_name |-> <<>>, parts |-> <<>>,
                     raised |-> "", value |-> <<>>]
    /\ ep = <<>> /\ dk = <<>> /\ ag = <<>> /\ rq = <<>>
    /\ EngineIdle

\* if not isinstance(formation_name, str): raise ValidationError(..)
\* formation_name = formation_name.strip()
ValidateStrip ==
    /\ call.pc = "isinstance"
    /\ call' = IF call.formation.type # "str"
               THEN [call EXCEPT !.pc = "raised", !.raised = "ValidationError"]
               ELSE [call EXCEPT !.pc = "match",
                                 !.formation_name = strip(call.formation)]
    /\ UNCHANGED <<ep, dk, ag, rq>>
    /\ EngineUnchanged

\* if not formation_name: raise ..; if not re.match(..): raise ..
ValidateMatch ==
    /\ call.pc = "match"
    /\ call' = IF \/ call.formation_name.groups = <<>>
                  \/ ~formation_pattern(call.formation_name.groups)
               THEN [call EXCEPT !.pc = "raised", !.raised = "ValidationError"]
               ELSE [call EXCEPT !.pc = "int"]
    /\ UNCHANGED <<ep, dk, ag, rq>>
    /\ EngineUnchanged

\* parts = [int(x) for x in formation_name.split('-')]
ValidateInt ==
    /\ call.pc = "int"
    /\ call' = IF int_raises(call.formation_name.groups, call.int_max_str_digits)
               THEN [call EXCEPT !.pc = "raised", !.raised = "ValueError"]
               ELSE [call EXCEPT !.pc = "parts",
                                 !.parts = call.formation_name.groups]
    /\ UNCHANGED <<ep, dk, ag, rq>>
    /\ EngineUnchanged

\* the loop over parts, sum(parts) != 10, len(parts) < 2, len(parts) > 5,
\* return formation_name
ValidateParts ==
    /\ call.pc = "parts"
    /\ call' = IF \/ \E i \in DOMAIN call.parts : part_out_of_range(call.parts[i])
                  \/ parts_sum(call.parts) # 10
                  \/ Len(call.parts) < 2
                  \/ Len(call.parts) > 5
               THEN [call EXCEPT !.pc = "raised", !.raised = "ValidationError"]
               ELSE [call EXCEPT !.pc = "returned",
                                 !.value = call.formation_name]
    /\ UNCHANGED <<ep, dk, ag, rq>>
    /\ EngineUnchanged

NextValidate == ValidateStrip \/ ValidateMatch \/ ValidateInt \/ ValidateParts

SpecValidate == InitValidate /\ [][NextValidate]_vars

\* the inputs the contract accepts: a string of 2 to 5 groups of digits, each
\* between 1 and 6, summing to 10
well_formed_formation(formation) ==
    /\ formation.type = "str"
    /\ Len(formation.groups) >= 2 /\ Len(formation.groups) <= 5
    /\ \A i \in DOMAIN formation.groups :
           formation.groups[i] >= 1 /\ formation.groups[i] <= 6
    /\ SumSeq(formation.groups) = 10

\* C19: validate_formation returns the whitespace-stripped input exactly when
\* the input is a string of 2 to 5 hyphen-separated digit groups, each between
\* 1 and 6, summing to 10; on every other input it raises ValidationError.
C19_ValidateFormationContract ==
    /\ call.pc = "returned" =>
           /\ well_formed_formation(call.formation)
           /\ call.value = strip(call.formation)
    /\ call.pc = "raised" =>
           /\ ~well_formed_formation(call.formation)
           /\ call.raised = "ValidationError"

----------------------------------------------------------------------------
(* event_log entries of a MatchSimulator run *)

\* C20: every entry of every player's event_log, the goal_conceded entries of
\* the opponents included, has the five fields minute, action, event, impact
\* and success.
C20_LogEntriesHaveFiveFields ==
    \A i \in DOMAIN players :
        \A k \in DOMAIN players[i].event_log :
            {"minute", "action", "event", "impact", "success"}
                \subseteq DOMAIN players[i].event_log[k]

----------------------------------------------------------------------------
(* Goals of a MatchSimulator run *)

\* the number of entries of a player's event_log with the given event
logged(p, event) ==
    Cardinality({k \in DOMAIN p.event_log : p.event_log[k].event = event})

\* the score of the team a player does not belong to
score_against(p) ==
    IF p.team = "A" THEN match_state.score_b ELSE match_state.score_a

\* the scores equal the goals logged, and every player has one goal_conceded
\* entry per goal of the other team
C21_ScoreMatchesLogs ==
    players # <<>> =>
        /\ match_state.score_a + match_state.score_b
               = SumSeq([i \in 1..Len(players) |-> logged(players[i], "goal")])
        /\ \A i \in DOMAIN players :
               logged(players[i], "goal_conceded") = score_against(players[i])

\* a step in which the acting player resolves to a goal changes the score of
\* that player's team by one, the other score not at all, re-derives the game
\* states and leaves possession with the other team; no other step of a run
\* changes a score
C21_GoalStep ==
    (players # <<>> /\ players' # <<>>) =>
        IF sim.pc = "event" /\ sim'.evt = "goal"
        THEN LET team == players[sim.idx].team
             IN  /\ match_state'.score_a =
                        match_state.score_a + (IF team = "A" THEN 1 ELSE 0)
                 /\ match_state'.score_b =
                        match_state.score_b + (IF team = "B" THEN 1 ELSE 0)
                 /\ match_state' = update_game_states(match_state')
                 /\ match_state'.possession_team # team
                 /\ \A i \in DOMAIN players :
                        players[i].team # team =>
                            logged(players'[i], "goal_conceded")
                                = logged(players[i], "goal_conceded") + 1
        ELSE /\ match_state'.score_a = match_state.score_a
             /\ match_state'.score_b = match_state.score_b

----------------------------------------------------------------------------
(* One call of MatchSimulator.run() on a freshly constructed simulator *)

\* the (x, y) draws of build_player for the squad of the run
RunPlacements == {<<<<72, 34>>, <<75, 34>>>>}

\* the fields of a MatchSimulator built from a config, at the start of run()
new_simulator(cfg) ==
    [pc |-> "run",
     formation_a  |-> cfg.formation,
     formation_b  |-> cfg.formation_b,
     tactic_a     |-> lower(cfg.tactic),
     tactic_b     |-> lower(cfg.tactic_b),
     start_minute |-> cfg.start_minute,
     end_minute   |-> cfg.end_minute,
     crowd_noise  |-> cfg.crowd_noise,
     minute       |-> cfg.start_minute,
     idx |-> 0, action |-> "", evt |-> "", coh_a |-> 0, coh_b |-> 0]

\* sim = MatchSimulator(...) as the handlers and the engine construct it;
\* mc only receives the returned result
InitRun ==
    /\ PureIdle
    /\ squad_def = SelectSeq(DEFAULT_SQUAD, LAMBDA row : row.id \in SquadIds)
    /\ config \in BaseConfigs
    /\ mc = [pc |-> "single", results |-> <<>>]
    /\ \E xy \in RunPlacements : players = build_squads(squad_def, xy)
    /\ match_state = new_match_state(config.start_minute, config.crowd_noise)
    /\ sim = new_simulator(config)

NextRun ==
    \/ SimStep
    \/ PlayerEvent
    \/ PlayerFatigue
    \/ PlayerDecay
    \/ PlayerCrowd
    \/ PlayerPressure
    \/ EndStep
    \/ SimCollate

\* the statements of one player's turn in _run_step
TurnPcs == {"event", "fatigue", "decay", "crowd", "pressure"}

\* run() is one thread executing its statements in order.  The loop head, the
\* end of a step and the return are always executed when they are next; a
\* player's turn is straight-line code whose statements are enabled whenever
\* they are next, so weak fairness of each of them is that the run is not in
\* a turn forever.
SpecRun ==
    /\ InitRun
    /\ [][NextRun]_vars
    /\ WF_vars(SimStep \/ EndStep \/ SimCollate)
    /\ []<>(sim.pc \notin TurnPcs)

\* len(range(start_minute, end_minute + 1))
steps_of(cfg) == Max(0, cfg.end_minute - cfg.start_minute + 1)

\* at the head of the loop the steps executed are those of the minutes
\* start_minute .. minute - 1, and every player has one snapshot per step;
\* once run() has returned there is one result and one snapshot per minute of
\* the window
C22_StepsAndSnapshots ==
    /\ Len(mc.results) <= 1
    /\ sim.pc = "run" =>
           /\ sim.minute >= sim.start_minute
           /\ sim.minute <= sim.start_minute + steps_of(config)
           /\ \A i \in DOMAIN players :
                  Len(players[i].pmu_history) = sim.minute - sim.start_minute
    /\ sim.pc = "none" =>
           /\ Len(mc.results) = 1
           /\ \A i \in DOMAIN players :
                  Len(players[i].pmu_history) = steps_of(config)

\* the minute of the loop changes only at the end of a step, by one, and the
\* step just run is the one of match_state.minute
C22_MinutesInOrder ==
    (sim.pc # "none" /\ sim'.pc # "none") =>
        IF sim.pc = "endstep"
        THEN sim'.minute = sim.minute + 1 /\ match_state'.minute = sim.minute
        ELSE sim'.minute = sim.minute

\* C22: MatchSimulator.run() terminates; it runs one step per minute of
\* [start_minute, end_minute] in increasing order (none when end_minute <
\* start_minute), never leaves the loop early, collates once, and then every
\* player has one pmu_history snapshot per executed step.
C22_RunTerminates ==
    /\ []C22_StepsAndSnapshots
    /\ [][C22_MinutesInOrder]_vars
    /\ <>[](sim.pc = "none" /\ Len(mc.results) = 1)

\* run() has returned after a window of two minutes in which a goal fell
C22_Witness ==
    /\ sim.pc = "none" /\ Len(mc.results) = 1
    /\ steps_of(config) = 2
    /\ mc.results[1].score.B > 0
    /\ \A i \in DOMAIN players : Len(players[i].pmu_history) = 2

----------------------------------------------------------------------------
(* A run with a forward on each team *)

\* the rows of DEFAULT_SQUAD of the run: the forwards A1 and B1
ForwardSquadIds == {"A1", "B1"}

InitForward ==
    /\ PureIdle
    /\ squad_def = SelectSeq(DEFAULT_SQUAD, LAMBDA row : row.id \in ForwardSquadIds)
    /\ config \in BaseConfigs
    /\ mc = [pc |-> "single", results |-> <<>>]
    /\ \E xy \in RunPlacements : players = build_squads(squad_def, xy)
    /\ match_state = new_match_state(config.start_minute, config.crowd_noise)
    /\ sim = new_simulator(config)

SpecForward == InitForward /\ [][NextRun]_vars

\* the largest ball_x that _run_step draws: the ball position nearest to the
\* goal line at PITCH_LENGTH
ball_x_nearest == CHOOSE bx \in RandBallX : \A other \in RandBallX : other <= bx

\* a forward is about to decide and the forward's team has the ball
forward_in_possession ==
    /\ sim.pc = "event"
    /\ players[sim.idx].position = "FWD"
    /\ match_state.possession_team = players[sim.idx].team

\* the actions the forward about to decide can choose
forward_choices ==
    LET p == players[sim.idx]
    IN  decide_action(p, IF p.team = "A" THEN match_state.game_state_a
                         ELSE match_state.game_state_b,
                      TRUE, match_state.ball_x)

\* in a run the ball is where the kick-off put it or where _run_step drew it,
\* and then it is never within 18 m of the goal line
BallOutsideShotRange ==
    match_state # NoMatchState =>
        /\ match_state.ball_x \in RandBallX \cup {new_match_state(0, 0).ball_x}
        /\ Abs(match_state.ball_x - PITCH_LENGTH * 10) >= 180

\* C23: a forward in possession chooses 'shot' only with the ball within 18 m
\* of the goal, 'dribble' only within 30 m and otherwise 'pass', and the
\* shooting branch is reachable in a run: with the ball at the nearest position
\* a run puts it, a forward in possession can choose 'shot'.
C23_ForwardCanShoot ==
    forward_in_possession =>
        LET dist_to_goal == Abs(match_state.ball_x - PITCH_LENGTH * 10)
        IN  /\ forward_choices \subseteq {"shot", "dribble", "pass"}
            /\ "shot" \in forward_choices => dist_to_goal < 180
            /\ "dribble" \in forward_choices => dist_to_goal < 300
            /\ "pass" \in forward_choices
            /\ match_state.ball_x = ball_x_nearest => "shot" \in forward_choices

----------------------------------------------------------------------------
(* AgentDecision.decide_action and attempt_action on one player's turn *)

\* squad rows of the deciding player: a forward, a midfielder, a defender and
\* a goalkeeper
AgentRowInputs == {1, 2, 3, 11}

\* player.skill in tenths, from no skill to three times the scale
AgentSkillInputs == {0, 79, 93, 100, 300}

\* player.fatigue, thousandths
AgentFatigueInputs == {0, 40000, 100000}

\* player.pmu, thousandths: below and above the 30 of the pressing test
AgentPmuInputs == {20000, 45000}

\* match_state.ball_x, tenths of a metre: kick-off, the ends of the draw, and
\* a position inside the box
AgentBallXInputs == {200, 525, 850, 950}

\* the player of one input
agent_subject(row, skill, fatigue, pmu) ==
    [build_player(DEFAULT_SQUAD[row], 52, 34) EXCEPT
        !.skill = skill, !.fatigue = fatigue, !.pmu = pmu]

InitAgent ==
    /\ \E row \in AgentRowInputs, skill \in AgentSkillInputs,
          fatigue \in AgentFatigueInputs, pmu \in AgentPmuInputs,
          game_state \in {"tied", "losing"}, has_possession \in BOOLEAN,
          ball_x \in AgentBallXInputs :
          call = [fn |-> "AgentDecision", pc |-> "decide",
                  player |-> agent_subject(row, skill, fatigue, pmu),
                  game_state |-> game_state, has_possession |-> has_possession,
                  ball_x |-> ball_x, action |-> "", prob |-> -1,
                  success |-> FALSE, resolved |-> ""]
    /\ ep = <<>> /\ dk = <<>> /\ ag = <<>> /\ rq = <<>>
    /\ EngineIdle

\* action = AgentDecision.decide_action(player, gs, has_poss, ball_x, minute)
AgentDecide ==
    /\ call.pc = "decide"
    /\ \E action \in decide_action(call.player, call.game_state,
                                   call.has_possession, call.ball_x) :
          call' = [call EXCEPT !.pc = "attempt", !.action = action]
    /\ UNCHANGED <<ep, dk, ag, rq>>
    /\ EngineUnchanged

\* success, evt_type = AgentDecision.attempt_action(action, player)
AgentAttempt ==
    /\ call.pc = "attempt"
    /\ \E out \in attempt_action(call.action, call.player) :
          call' = [call EXCEPT !.pc = "done",
                               !.prob = success_prob(call.action, call.player),
                               !.success = out[1], !.resolved = out[2]]
    /\ UNCHANGED <<ep, dk, ag, rq>>
    /\ EngineUnchanged

NextAgent == AgentDecide \/ AgentAttempt

SpecAgent == InitAgent /\ [][NextAgent]_vars

\* C24: attempt_action resolves to 'goal' only for a successful 'shot'; a
\* failed attempt resolves to one of turnover, shot, foul, tackle, press,
\* clearance and never to shot_on_target, tackle_won, dribble_success or goal;
\* the success probability is within [0.05, 0.97].
C24_AttemptResolution ==
    call.pc = "done" =>
        /\ call.resolved = "goal" => call.action = "shot" /\ call.success
        /\ ~call.success =>
               call.resolved \in {"turnover", "shot", "foul", "tackle", "press",
                                  "clearance"}
        /\ call.prob >= 500 /\ call.prob <= 9700

\* a shot that failed and stayed a shot, taken at the lower clamp of the
\* probability
C24_Witness ==
    /\ call.pc = "done"
    /\ call.action = "shot" /\ ~call.success /\ call.resolved = "shot"
    /\ call.prob = 500

----------------------------------------------------------------------------
(* The goal_conceded penalty *)

\* the tactic multipliers of a player's own team
own_tactic_mods(p) ==
    tactic_mods(IF p.team = "A" THEN sim.tactic_a ELSE sim.tactic_b)

\* C25: when a team scores, the goal_conceded penalty added to each
\* opponent's event_impact is the base impact times the minute modifier times
\* the PMU multiplier of the opponent's own tactic, whichever team concedes,
\* and the impact of the opponent's goal_conceded log entry is the amount
\* added.
C25_ConcededPenaltyOwnTactic ==
    [][(sim.pc = "event" /\ sim'.pc = "fatigue" /\ sim'.evt = "goal") =>
          \A i \in DOMAIN players :
              players[i].team # players[sim.idx].team =>
                  LET added == RoundHalfEven(
                                   EVENT_BASE_IMPACTS["goal_conceded"]
                                   * minute_modifier(sim.minute)
                                   * own_tactic_mods(players[i]).pmu, 1000)
                      log   == players'[i].event_log
                  IN  /\ players'[i].event_impact = players[i].event_impact + added
                      /\ log[Len(log)].event = "goal_conceded"
                      /\ log[Len(log)].impact = RoundHalfEven(added, 10) * 10]_vars

----------------------------------------------------------------------------
(* The pressure block of _run_step *)

\* the coherence of the team a player belongs to, as computed at the head of
\* the step
team_coherence(p) == IF p.team = "A" THEN sim.coh_a ELSE sim.coh_b

\* C26: the pressure a player receives from each opponent is computed with the
\* formation coherence of the opponent's team: the PMU loss of the pressure
\* block is 5% of the sum of compute_impact(opp, player, coherence of opp's
\* team) over the opponents, where that sum is positive.
C26_PressureUsesPressurerCoherence ==
    [][(sim.pc = "pressure" /\ sim'.pc \in {"event", "endstep"}) =>
          LET p    == players[sim.idx]
              opps == SelectSeq(players, LAMBDA o : o.team # p.team)
              total_pressure ==
                  SumSeq([i \in 1..Len(opps) |->
                             compute_impact(opps[i], p, team_coherence(opps[i]))])
          IN  players'[sim.idx].event_impact =
                  IF total_pressure > 0
                  THEN p.event_impact - RoundHalfEven(total_pressure * 5, 100)
                  ELSE p.event_impact]_vars

----------------------------------------------------------------------------
(* What a run leaves alone *)

\* the players of one team
team_players(ps, team) == SelectSeq(ps, LAMBDA p : p.team = team)

\* no step of a run changes a player's x, y or baseline_energy
C27_PlacementKept ==
    (sim.pc # "none" /\ players' # <<>>) =>
        \A i \in DOMAIN players :
            /\ players'[i].x = players[i].x
            /\ players'[i].y = players[i].y
            /\ players'[i].baseline_energy = players[i].baseline_energy

\* the coherence computed at the head of each step and the one reported by
\* _collate_results are those of the squads as built
C27_CoherenceKept ==
    /\ (sim.pc \in TurnPcs \cup {"endstep"}) =>
           /\ sim.coh_a = coherence(team_players(players, "A"), sim.formation_a)
           /\ sim.coh_b = coherence(team_players(players, "B"), sim.formation_b)
    /\ (sim.pc = "none" /\ Len(mc.results) = 1) =>
           /\ mc.results[1].formation_coherence.A =
                  coherence(team_players(players, "A"), config.formation)
           /\ mc.results[1].formation_coherence.B =
                  coherence(team_players(players, "B"), config.formation_b)

\* C27: _run_step and the engines it calls leave every player's x, y and
\* baseline_energy as build_player set them, so the coherence of each team
\* (and with it every distance and zone, which depend on x and y only) is the
\* same at every step of a run and at collation.
C27_PitchStateFixed == [][C27_PlacementKept]_vars /\ []C27_CoherenceKept

\* a run of two steps has been collated: events, fatigue, decay, crowd and
\* pressure have acted on a player that is still where it was built
C27_Witness ==
    /\ sim.pc = "none" /\ Len(mc.results) = 1
    /\ \E i \in DOMAIN players :
           /\ Len(players[i].pmu_history) = 2
           /\ players[i].event_impact # 0 /\ players[i].fatigue > 0
           /\ players[i].x = 72 /\ players[i].y = 34
           /\ players[i].baseline_energy = 18850

----------------------------------------------------------------------------
(* The peak of the aggregate *)

\* C28: the aggregate's peakPMU is at least the peak_pmu of team A and the
\* peak_pmu of team B of every run, and so at least every run's team
\* averages.
C28_PeakCoversBothTeams ==
    mc.pc = "done" =>
        \A i \in DOMAIN mc.results :
            /\ mc.aggregate.peakPMU >= mc.results[i].team_a.peak_pmu
            /\ mc.aggregate.peakPMU >= mc.results[i].team_b.peak_pmu
            /\ mc.aggregate.peakPMU >= mc.results[i].team_a.avg_pmu
            /\ mc.aggregate.peakPMU >= mc.results[i].team_b.avg_pmu

----------------------------------------------------------------------------
(* StreamingJobManager: the job dictionaries under concurrent calls *)

\* the job ids in use: one job that every call is about
JobIds == {1}

\* the threads calling into the job manager, one call each
JobThreads == {1, 2, 3}

\* the three calls that take a job id and change the dictionaries
JobOps == {"update_progress", "complete_job", "cancel_job"}

\* a dict with no key
EmptyDict == [j \in {} |-> <<>>]

\* d[k] = v
dict_set(d, k, v) == [j \in DOMAIN d \cup {k} |-> IF j = k THEN v ELSE d[j]]

\* d without the key k, as d.pop(k) leaves it
dict_pop(d, k) == [j \in DOMAIN d \ {k} |-> d[j]]

\* StreamingJobManager(): two empty dictionaries and a free lock (0)
StreamingJobManager_init ==
    [active_jobs |-> EmptyDict, completed_jobs |-> EmptyDict, lock |-> 0]

\* create_job: a record with status 'running' and no progress goes into
\* active_jobs under the lock; progress is held as its length
create_job(jm, job_id) ==
    [jm EXCEPT !.active_jobs =
        dict_set(jm.active_jobs, job_id,
                 [status |-> "running", progress |-> 0, result |-> FALSE])]

\* get_job_status: under the lock, 'running' for every id of active_jobs
\* whatever its status field says, 'completed' for an id of completed_jobs,
\* None otherwise
get_job_status(jm, job_id) ==
    IF job_id \in DOMAIN jm.active_jobs THEN "running"
    ELSE IF job_id \in DOMAIN jm.completed_jobs THEN "completed"
    ELSE "None"

\* a thread that has not called yet
idle_thread == [pc |-> "idle", op |-> "", job_id |-> "", ret |-> "", job |-> <<>>]

InitJobs ==
    /\ \E job_id \in JobIds :
          call = [fn |-> "StreamingJobManager",
                  jm |-> create_job(StreamingJobManager_init, job_id),
                  th |-> [t \in JobThreads |-> idle_thread]]
    /\ ep = <<>> /\ dk = <<>> /\ ag = <<>> /\ rq = <<>>
    /\ EngineIdle

\* a thread enters update_progress, complete_job or cancel_job with a job id
JobCall(t) ==
    /\ call.th[t].pc = "idle"
    /\ \E op \in JobOps, job_id \in JobIds :
          call' = [call EXCEPT !.th[t].pc = "test", !.th[t].op = op,
                               !.th[t].job_id = job_id]
    /\ UNCHANGED <<ep, dk, ag, rq>>
    /\ EngineUnchanged

\* if job_id not in self.active_jobs: return False -- read without the lock
JobTest(t) ==
    /\ call.th[t].pc = "test"
    /\ call' = IF call.th[t].job_id \notin DOMAIN call.jm.active_jobs
               THEN [call EXCEPT !.th[t].pc = "done", !.th[t].ret = "False"]
               ELSE [call EXCEPT !.th[t].pc = "lock"]
    /\ UNCHANGED <<ep, dk, ag, rq>>
    /\ EngineUnchanged

\* with self.lock: the thread waits until the lock is free
JobAcquire(t) ==
    /\ call.th[t].pc = "lock"
    /\ call.jm.lock = 0
    /\ call' = [call EXCEPT !.jm.lock = t, !.th[t].pc = "body"]
    /\ UNCHANGED <<ep, dk, ag, rq>>
    /\ EngineUnchanged

\* self.active_jobs[job_id] of a missing key raises KeyError; the with
\* statement releases the lock and the exception leaves the call
raise_KeyError(t) ==
    [call EXCEPT !.jm.lock = 0, !.th[t].pc = "done", !.th[t].ret = "KeyError"]

\* update_progress under the lock: append to the job's progress, return True
JobUpdateBody(t) ==
    /\ call.th[t].pc = "body" /\ call.th[t].op = "update_progress"
    /\ LET job_id == call.th[t].job_id
       IN  call' =
             IF job_id \notin DOMAIN call.jm.active_jobs THEN raise_KeyError(t)
             ELSE [call EXCEPT
                     !.jm.active_jobs[job_id].progress = @ + 1,
                     !.jm.lock = 0, !.th[t].pc = "done", !.th[t].ret = "True"]
    /\ UNCHANGED <<ep, dk, ag, rq>>
    /\ EngineUnchanged

\* cancel_job under the lock: the job's status becomes 'cancelled', return True
JobCancelBody(t) ==
    /\ call.th[t].pc = "body" /\ call.th[t].op = "cancel_job"
    /\ LET job_id == call.th[t].job_id
       IN  call' =
             IF job_id \notin DOMAIN call.jm.active_jobs THEN raise_KeyError(t)
             ELSE [call EXCEPT
                     !.jm.active_jobs[job_id].status = "cancelled",
                     !.jm.lock = 0, !.th[t].pc = "done", !.th[t].ret = "True"]
    /\ UNCHANGED <<ep, dk, ag, rq>>
    /\ EngineUnchanged

\* complete_job under the lock, first statement: job = self.active_jobs.pop(job_id)
JobCompletePop(t) ==
    /\ call.th[t].pc = "body" /\ call.th[t].op = "complete_job"
    /\ LET job_id == call.th[t].job_id
       IN  call' =
             IF job_id \notin DOMAIN call.jm.active_jobs THEN raise_KeyError(t)
             ELSE [call EXCEPT
                     !.jm.active_jobs = dict_pop(@, job_id),
                     !.th[t].job = call.jm.active_jobs[job_id],
                     !.th[t].pc = "insert"]
    /\ UNCHANGED <<ep, dk, ag, rq>>
    /\ EngineUnchanged

\* complete_job, the rest: status 'completed', the result, then
\* self.completed_jobs[job_id] = job, the lock released, return True
JobCompleteInsert(t) ==
    /\ call.th[t].pc = "insert"
    /\ call' = [call EXCEPT
                  !.jm.completed_jobs =
                      dict_set(@, call.th[t].job_id,
                               [call.th[t].job EXCEPT !.status = "completed",
                                                      !.result = TRUE]),
                  !.jm.lock = 0, !.th[t].pc = "done", !.th[t].ret = "True"]
    /\ UNCHANGED <<ep, dk, ag, rq>>
    /\ EngineUnchanged

NextJobs ==
    \E t \in JobThreads :
        \/ JobCall(t)
        \/ JobTest(t)
        \/ JobAcquire(t)
        \/ JobUpdateBody(t)
        \/ JobCancelBody(t)
        \/ JobCompletePop(t)
        \/ JobCompleteInsert(t)

SpecJobs == InitJobs /\ [][NextJobs]_vars

\* every call that returned gave True or False
C29_NoCallRaised ==
    \A t \in JobThreads :
        call.th[t].pc = "done" => call.th[t].ret \in {"True", "False"}

\* while no call holds the lock a job id is in exactly one dictionary
C29_InExactlyOne ==
    call.jm.lock = 0 =>
        \A job_id \in JobIds :
            (job_id \in DOMAIN call.jm.active_jobs)
                # (job_id \in DOMAIN call.jm.completed_jobs)

\* a job of completed_jobs stays there as it is and is not active again
C29_CompletedStays ==
    \A job_id \in DOMAIN call.jm.completed_jobs :
        /\ job_id \in DOMAIN call'.jm.completed_jobs
        /\ call'.jm.completed_jobs[job_id] = call.jm.completed_jobs[job_id]
        /\ job_id \notin DOMAIN call'.jm.active_jobs

\* C29: under any interleaving of concurrent update_progress, complete_job and
\* cancel_job calls on one job id, every call returns True or False without
\* raising, the id is in exactly one of active_jobs and completed_jobs, and a
\* job that reached completed_jobs never returns to active_jobs or changes
\* status.
C29_ConcurrentCallsSafe ==
    /\ []C29_NoCallRaised
    /\ []C29_InExactlyOne
    /\ [][C29_CompletedStays]_vars

----------------------------------------------------------------------------
(* /api/sweep/stream: the request handler and run_streaming_sweep *)

\* the requests one server run receives
MaxJobs == 2

\* formations and tactics of sweep_scenarios_stream
SweepFormations == <<"4-3-3", "4-4-2", "3-5-2", "5-3-2">>

SweepTactics == <<"aggressive", "balanced", "defensive", "possession">>

\* total_combos = len(formations) * len(tactics)
total_combos == Len(SweepFormations) * Len(SweepTactics)

\* the combination the nested loops reach as number combo_index
combo_at(combo_index) ==
    [formation |-> SweepFormations[((combo_index - 1) \div Len(SweepTactics)) + 1],
     tactic |-> SweepTactics[((combo_index - 1) % Len(SweepTactics)) + 1]]

\* no request served yet: an empty job manager, no sweep thread, no status
\* request answered
InitSweep ==
    /\ call = [fn |-> "sweep_scenarios_stream", jm |-> StreamingJobManager_init,
               sweeps |-> <<>>, status |-> <<>>]
    /\ ep = <<>> /\ dk = <<>> /\ ag = <<>> /\ rq = <<>>
    /\ EngineIdle

\* POST /api/sweep/stream with a valid body: create_job, then the thread of
\* run_streaming_sweep starts with combo_index = 0 and nothing emitted; the
\* job id is the next value of uuid4
sweep_scenarios_stream ==
    /\ Len(call.sweeps) < MaxJobs
    /\ LET job_id == Len(call.sweeps) + 1
       IN  call' = [call EXCEPT
                      !.jm = create_job(@, job_id),
                      !.sweeps = Append(@, [job_id |-> job_id, pc |-> "combo",
                                            combo_index |-> 0,
                                            emitted |-> <<>>])]
    /\ UNCHANGED <<ep, dk, ag, rq>>
    /\ EngineUnchanged

\* one pass of the loop body: the simulation and the analysis return and
\* sweep_progress goes out for the combination
SweepCombo(i) ==
    /\ i \in 1..Len(call.sweeps)
    /\ call.sweeps[i].pc = "combo"
    /\ call.sweeps[i].combo_index < total_combos
    /\ LET combo_index == call.sweeps[i].combo_index + 1
       IN  call' = [call EXCEPT
                      !.sweeps[i].combo_index = combo_index,
                      !.sweeps[i].emitted =
                          Append(@, [event |-> "sweep_progress",
                                     job_id |-> call.sweeps[i].job_id,
                                     combo_index |-> combo_index,
                                     combo |-> combo_at(combo_index)])]
    /\ UNCHANGED <<ep, dk, ag, rq>>
    /\ EngineUnchanged

\* after the loops: the ranking, then sweep_complete; the function returns
SweepComplete(i) ==
    /\ i \in 1..Len(call.sweeps)
    /\ call.sweeps[i].pc = "combo"
    /\ call.sweeps[i].combo_index = total_combos
    /\ call' = [call EXCEPT
                  !.sweeps[i].pc = "done",
                  !.sweeps[i].emitted =
                      Append(@, [event |-> "sweep_complete",
                                 job_id |-> call.sweeps[i].job_id])]
    /\ UNCHANGED <<ep, dk, ag, rq>>
    /\ EngineUnchanged

\* simulator_fn, analyzer_fn or emit raises inside the try: the except clause
\* emits sweep_error and the function returns
SweepError(i) ==
    /\ i \in 1..Len(call.sweeps)
    /\ call.sweeps[i].pc = "combo"
    /\ call' = [call EXCEPT
                  !.sweeps[i].pc = "done",
                  !.sweeps[i].emitted =
                      Append(@, [event |-> "sweep_error",
                                 job_id |-> call.sweeps[i].job_id])]
    /\ UNCHANGED <<ep, dk, ag, rq>>
    /\ EngineUnchanged

\* GET /api/sweep/job/<job_id>: the answer of get_job_status, 'None' being
\* the 404
get_sweep_job_status ==
    /\ \E job_id \in 1..MaxJobs :
          call' = [call EXCEPT
                     !.status = [job_id |-> job_id,
                                 status |-> get_job_status(call.jm, job_id)]]
    /\ UNCHANGED <<ep, dk, ag, rq>>
    /\ EngineUnchanged

NextSweep ==
    \/ sweep_scenarios_stream
    \/ \E i \in 1..MaxJobs : SweepCombo(i)
    \/ \E i \in 1..MaxJobs : SweepComplete(i)
    \/ \E i \in 1..MaxJobs : SweepError(i)
    \/ get_sweep_job_status

\* a started thread keeps running: the loop body and the code after the loops
\* are taken while they can be
SpecSweep ==
    /\ InitSweep
    /\ [][NextSweep]_vars
    /\ \A i \in 1..MaxJobs : WF_vars(SweepCombo(i) \/ SweepComplete(i))

\* the events a sweep has emitted, by name
emitted_events(i) ==
    [k \in 1..Len(call.sweeps[i].emitted) |-> call.sweeps[i].emitted[k].event]

\* the sweep has emitted sweep_complete or sweep_error
sweep_ended(i) ==
    \E k \in 1..Len(call.sweeps[i].emitted) :
        emitted_events(i)[k] \in {"sweep_complete", "sweep_error"}

\* sweep_complete comes after exactly one sweep_progress per combination, in
\* the order of the loops
C30_ProgressInOrder ==
    \A i \in 1..Len(call.sweeps) :
        LET emitted == call.sweeps[i].emitted
        IN  \A k \in 1..Len(emitted) :
                /\ emitted[k].event = "sweep_progress" =>
                       /\ emitted[k].combo_index = k
                       /\ emitted[k].combo = combo_at(k)
                /\ emitted[k].event = "sweep_complete" => k = total_combos + 1
                /\ emitted[k].event # "sweep_progress" => k = Len(emitted)

\* once sweep_complete or sweep_error is out, the job is not reported running
C30_EndedNotRunning ==
    \A i \in 1..Len(call.sweeps) :
        sweep_ended(i) =>
            get_job_status(call.jm, call.sweeps[i].job_id) # "running"

\* C30: every job created by /api/sweep/stream eventually leaves the
\* 'running' state: once run_streaming_sweep has emitted sweep_complete (after
\* exactly one sweep_progress per formation-tactic combination, in order) or
\* sweep_error, get_job_status for that job id no longer reports 'running'.
C30_JobLeavesRunning ==
    /\ []C30_ProgressInOrder
    /\ []C30_EndedNotRunning
    /\ \A job_id \in 1..MaxJobs :
          (get_job_status(call.jm, job_id) = "running")
              ~> (get_job_status(call.jm, job_id) # "running")

====
